---- MODULE Spec2Model ----
(***************************************************************************)
(* A model of page-builder.js: the PageBuilder class (initialisation,      *)
(* document structure, chart interface methods, buildDemographicsReport)   *)
(* and the embedded chart functions (setupSVG, the eight renderers, the    *)
(* multi-scale normalisation).                                             *)
(*                                                                         *)
(* The browser is modelled as a single-threaded event loop: a handler runs *)
(* to its next await; continuations of settled promises are microtasks and *)
(* run before any timer or script-load event; setTimeout callbacks with    *)
(* the same delay fire in the order they were scheduled.                   *)
(***************************************************************************)
EXTENDS Integers, Sequences, FiniteSets, TLC

VARIABLES
  isInitialized,    \* PageBuilder.isInitialized
  currentDocument,  \* children of the current document's .report-content
  hasDocument,      \* PageBuilder.currentDocument is not null
  contentArea,      \* the current document holds its .report-content element
  chartCounter,     \* PageBuilder.chartCounter
  sectionCounter,   \* PageBuilder.sectionCounter
  d3,               \* the global d3: "undeclared", "falsy" (declared, null) or "loaded"
  scriptLoads,      \* script elements appended to document.head by loadScript
  console,          \* messages written by console.log / warn / error
  timers,           \* pending setTimeout callbacks, in scheduling order
  uncaught,         \* exceptions that escaped a timer callback
  pc,               \* where the buildDemographicsReport activation stands
  report,           \* the part of reportData the activation has read so far
  events,           \* DOM insertions and chart drawings, in the order they happened
  callers,          \* activations of directly called API methods
  microtasks,       \* callers whose continuation is queued
  calls,            \* direct calls of the embedded chart functions, with their outcome
  datasets,         \* input of createMultiScaleBarChart
  normalizedDatasets, \* its normalizedDatasets, <<>> before the call
  status,           \* the text shown by each copy control of a context menu
  copies,           \* activations of the clipboard copy functions
  downloads         \* files downloaded through a generated link

vars == <<isInitialized, currentDocument, hasDocument, chartCounter, sectionCounter,
          d3, scriptLoads, console, timers, uncaught, pc, report, events,
          callers, microtasks, calls, datasets, normalizedDatasets,
          status, copies, downloads, contentArea>>

builderVars == <<isInitialized, currentDocument, hasDocument, chartCounter, sectionCounter>>
pageVars == <<d3, scriptLoads, console, timers, uncaught>>
reportVars == <<pc, report, events>>
callVars == <<callers, microtasks>>
normVars == <<datasets, normalizedDatasets>>
copyVars == <<status, copies, downloads>>

(***************************************************************************)
(* Bounds of the model.                                                    *)
(***************************************************************************)
MaxSections == 2
MaxItems == 2
NumCallers == 3
MaxCalls == 4
MaxRenders == 2
MaxSeries == 2
MaxLen == 1

(***************************************************************************)
(* The document tree.  Every node is a record of the same shape; id is the *)
(* number N of an id "section-N" or "chart-N" (-1: no id), decl names the  *)
(* entry of the report description the node was built for, n counts the    *)
(* marks (slices, bars, rows) of a visual.                                 *)
(***************************************************************************)
NoDecl == <<0, "none", 0>>

Node(tag, id, decl, kids, n) ==
  [tag |-> tag, id |-> id, decl |-> decl, kids |-> kids, n |-> n]

\* The selectors the library passes to querySelector.
SelReportContent == [sel |-> "reportContent", id |-> -1]
SelSectionContent == [sel |-> "sectionContent", id |-> -1]
SelSectionById(id) == [sel |-> "sectionById", id |-> id]

\* currentDocument.querySelector(parentSelector) || querySelector('.report-content'):
\* the index of the first section, in document order, whose content area the
\* selector matches; 0 stands for .report-content itself.
MatchesSelector(node, sel) ==
  /\ node.tag = "section"
  /\ \/ sel.sel = "sectionContent"
     \/ sel.sel = "sectionById" /\ node.id = sel.id

ResolveParent(doc, sel) ==
  LET hits == {i \in 1..Len(doc) : MatchesSelector(doc[i], sel)}
  IN IF sel.sel = "reportContent" \/ hits = {} THEN 0
     ELSE CHOOSE i \in hits : \A j \in hits : i <= j

AppendChild(doc, parent, node) ==
  IF parent = 0 THEN Append(doc, node)
  ELSE [doc EXCEPT ![parent].kids = Append(@, node)]

(***************************************************************************)
(* PageBuilder: document structure.                                        *)
(***************************************************************************)
\* createDocument: body is cleared and a fresh, empty .report-content is current.
createDocument == <<>>

\* addExecutiveSummary: appended to .report-content.
addExecutiveSummary(doc) ==
  AppendChild(doc, 0, Node("summary", -1, NoDecl, <<>>, 0))

\* createSection, the destructuring defaults: the title default
\* `Section ${++this.sectionCounter}` is evaluated, and the counter
\* incremented, only when no title is supplied.
SectionCounterAfter(counter, titled) ==
  IF titled THEN counter ELSE counter + 1

\* containerId = `section-${this.sectionCounter}`, evaluated after the title default.
SectionId(counter, titled) == SectionCounterAfter(counter, titled)

\* createSection: the section is appended to .report-content.
createSection(doc, counter, titled, decl) ==
  AppendChild(doc, 0, Node("section", SectionId(counter, titled), decl, <<>>, 0))

\* createChartContainer, containerId = `chart-${++this.chartCounter}`.
ChartId(counter) == counter + 1

\* A variant that ignores parentSelector and appends to .report-content.
createChartContainerAtRoot(doc, counter, title, sel, decl) ==
  AppendChild(doc, 0, Node("chart", ChartId(counter), decl,
                           IF title THEN <<Node("h3", -1, NoDecl, <<>>, 0)>> ELSE <<>>, 0))

\* createChartContainer: a div with the id, holding an h3 when a title is given,
\* appended to the resolved parent.
createChartContainer(doc, counter, title, sel, decl) ==
  LET kids == IF title THEN <<Node("h3", -1, NoDecl, <<>>, 0)>> ELSE <<>>
  IN AppendChild(doc, ResolveParent(doc, sel),
                 Node("chart", ChartId(counter), decl, kids, 0))

\* addKeyFinding / addRecommendation / addTextContent: one element of the
\* class, appended to the resolved parent; n = 1 marks a recommendation that
\* carries its priority prefix.
addKeyFinding(doc, sel, decl) ==
  AppendChild(doc, ResolveParent(doc, sel), Node("key-finding", -1, decl, <<>>, 0))

\* A variant that always writes the priority prefix.
addRecommendationPrefixed(doc, priority, sel, decl) ==
  AppendChild(doc, ResolveParent(doc, sel), Node("recommendation", -1, decl, <<>>, 1))

addRecommendation(doc, priority, sel, decl) ==
  AppendChild(doc, ResolveParent(doc, sel),
              Node("recommendation", -1, decl, <<>>, IF priority THEN 1 ELSE 0))

addTextContent(doc, sel, decl) ==
  AppendChild(doc, ResolveParent(doc, sel), Node("text-content", -1, decl, <<>>, 0))

(***************************************************************************)
(* The embedded chart functions.                                           *)
(* A chart configuration: type is the type tag, title whether a title is   *)
(* given, labels the category names, data one data series (hasData: the    *)
(* field is present), series the number of series of a grouped chart (each *)
(* holding data).  null marks a null entry of a charts array.              *)
(***************************************************************************)
ChartKinds == {"multiSeries", "percentage", "multiColor", "comparison",
               "pie", "table", "multiScale", "doughnut"}

\* A variant of the switch with a default case that treats the entry as a chart.
DispatchesEveryType(type) == TRUE

\* switch (type) of buildDemographicsReport and of addChart: the eight
\* cases, and no default.
DispatchesChart(type) == type \in ChartKinds

ChartConfig(type, title, labels, data, hasData, series) ==
  [null |-> FALSE, type |-> type, title |-> title, labels |-> labels,
   data |-> data, hasData |-> hasData, series |-> series]

NullEntry ==
  [null |-> TRUE, type |-> "null", title |-> FALSE, labels |-> <<>>,
   data |-> <<>>, hasData |-> FALSE, series |-> 0]

\* The marks a renderer draws: one group of bars per label and series
\* (grouped kinds), one bar per data value (single-series kinds), one slice
\* per label (pie, doughnut: pieData = labels.map(...)), one row per label
\* (table, parallel arrays).
Marks(cfg) ==
  CASE cfg.type \in {"multiSeries", "multiScale"} -> Len(cfg.labels) * cfg.series
    [] cfg.type = "comparison" -> Len(cfg.labels) * 2
    [] cfg.type \in {"percentage", "multiColor"} -> Len(cfg.data)
    [] OTHER -> Len(cfg.labels)

\* setupSVG: container.selectAll('*').remove(), then one svg is appended.
setupSVG(n) == <<Node("svg", -1, NoDecl, <<>>, n)>>

\* createDataTable up to the rows: the container is cleared, an h4 is added
\* when a title is given, then the table.
TableSurface(title, n) ==
  (IF title THEN <<Node("h4", -1, NoDecl, <<>>, 0)>> ELSE <<>>)
    \o <<Node("table", -1, NoDecl, <<>>, n)>>

Outcome(kids, threw, result, log) ==
  [kids |-> kids, threw |-> threw, result |-> result, log |-> log]

\* The guard `if (!d3)` of the seven svg renderers: evaluating an undeclared
\* identifier throws a ReferenceError; a declared, falsy d3 takes the branch.
GuardThrows(d3State) == d3State = "undeclared"

GuardReturnsNull(d3State) == d3State = "falsy"

\* Whether the renderer throws on a configuration without its data field,
\* and whether it has run setupSVG by then: createMultiScaleBarChart maps the
\* datasets before setupSVG, the others after; createComparisonBarChart
\* reads the datasets only inside labels.forEach.
ThrowsOnMissingData(cfg) ==
  /\ ~cfg.hasData
  /\ cfg.type = "comparison" => Len(cfg.labels) > 0

\* A variant whose svg is appended to what the surface already holds.
RenderSvgChartAppending(d3State, kids, cfg) ==
  IF GuardThrows(d3State) THEN Outcome(kids, TRUE, "none", <<>>)
  ELSE IF GuardReturnsNull(d3State)
    THEN Outcome(kids, FALSE, "null", <<"D3.js not loaded">>)
  ELSE IF ThrowsOnMissingData(cfg)
    THEN Outcome(IF cfg.type = "multiScale" THEN kids ELSE kids \o setupSVG(0),
                 TRUE, "none", <<>>)
  ELSE Outcome(kids \o setupSVG(Marks(cfg)), FALSE, "chart", <<>>)

\* One call of a renderer on a drawing surface whose children are kids.
RenderSvgChart(d3State, kids, cfg) ==
  IF GuardThrows(d3State) THEN Outcome(kids, TRUE, "none", <<>>)
  ELSE IF GuardReturnsNull(d3State)
    THEN Outcome(kids, FALSE, "null", <<"D3.js not loaded">>)
  ELSE IF ThrowsOnMissingData(cfg)
    THEN Outcome(IF cfg.type = "multiScale" THEN kids ELSE setupSVG(0),
                 TRUE, "none", <<>>)
  ELSE Outcome(setupSVG(Marks(cfg)), FALSE, "chart", <<>>)

\* createDataTable has no guard: d3.select(...) on an undeclared or falsy d3
\* throws before the surface is touched.
RenderDataTable(d3State, kids, cfg) ==
  IF d3State # "loaded" THEN Outcome(kids, TRUE, "none", <<>>)
  ELSE IF ~cfg.hasData THEN Outcome(TableSurface(cfg.title, 0), TRUE, "none", <<>>)
  ELSE Outcome(TableSurface(cfg.title, Marks(cfg)), FALSE, "chart", <<>>)

Render(d3State, kids, cfg) ==
  IF cfg.type = "table" THEN RenderDataTable(d3State, kids, cfg)
  ELSE RenderSvgChart(d3State, kids, cfg)

\* d3.select(`#chart-N`): the first element of the document, in document
\* order, with the id; <<>> when there is none (an empty selection, on which
\* every later call is a no-op).
HoldsChart(node, id) ==
  \/ node.tag = "chart" /\ node.id = id
  \/ \E j \in 1..Len(node.kids) : node.kids[j].tag = "chart" /\ node.kids[j].id = id

SelectChart(doc, id) ==
  LET tops == {i \in 1..Len(doc) : HoldsChart(doc[i], id)}
  IN IF tops = {} THEN <<>>
     ELSE LET i == CHOOSE x \in tops : \A y \in tops : x <= y
          IN IF doc[i].tag = "chart" /\ doc[i].id = id THEN <<i>>
             ELSE LET inner == {j \in 1..Len(doc[i].kids) :
                                  doc[i].kids[j].tag = "chart" /\ doc[i].kids[j].id = id}
                  IN <<i, CHOOSE x \in inner : \A y \in inner : x <= y>>

SurfaceKids(doc, path) ==
  IF Len(path) = 1 THEN doc[path[1]].kids
  ELSE IF Len(path) = 2 THEN doc[path[1]].kids[path[2]].kids
  ELSE <<>>

SetSurfaceKids(doc, path, kids) ==
  IF Len(path) = 1 THEN [doc EXCEPT ![path[1]].kids = kids]
  ELSE IF Len(path) = 2 THEN [doc EXCEPT ![path[1]].kids[path[2]].kids = kids]
  ELSE doc

\* The callback of a create*Chart timer: the renderer runs on the surface
\* with the chart's id.  On an empty selection nothing is drawn and nothing
\* is thrown by the drawing calls.
DrawOutcome(doc, d3State, id, cfg) ==
  LET path == SelectChart(doc, id)
      out == Render(d3State, SurfaceKids(doc, path), cfg)
  IN [doc |-> IF path = <<>> THEN doc ELSE SetSurfaceKids(doc, path, out.kids),
      threw |-> out.threw, log |-> out.log,
      drawn |-> path # <<>> /\ out.result = "chart"]


(***************************************************************************)
(* PageBuilder.initialize / ensureInitialized, up to the first await.      *)
(* typeof d3 === 'undefined' holds of an undeclared d3; then loadScript    *)
(* appends a script element and the caller waits for its load event.       *)
(* isInitialized is assigned only after that await.                        *)
(***************************************************************************)
NeedsScript(initialized, d3State) == ~initialized /\ d3State = "undeclared"

\* The flag after the synchronous part of initialize().
InitializedAfterCall(initialized, d3State) ==
  initialized \/ d3State # "undeclared"

\* The console after the synchronous part of initialize().
LogAfterCall(log, initialized, d3State) ==
  IF ~initialized /\ d3State # "undeclared"
  THEN Append(log, "PageBuilder initialized successfully")
  ELSE log

(***************************************************************************)
(* buildDemographicsReport.  The activation reads reportData entry by      *)
(* entry; report holds what it has read.  A section of report:             *)
(* [titled, id, charts, content], id being section.id of the created       *)
(* section.                                                                *)
(***************************************************************************)
PieABC == ChartConfig("pie", TRUE, <<"A", "B", "C">>, <<45, 35, 20>>, TRUE, 1)

\* A pie entry without its data field: createPieChart throws at data.length.
PieNoData == ChartConfig("pie", FALSE, <<"A">>, <<>>, FALSE, 1)

UnknownChart == ChartConfig("radar", FALSE, <<"A">>, <<1>>, TRUE, 1)

ChartChoices == {PieABC, PieNoData, UnknownChart, NullEntry}

ContentEntry(type, priority) == [type |-> type, priority |-> priority]

\* "undefined" is the type of an entry without a type field, "note" a type
\* the assembly does not know.
ContentChoices == {ContentEntry("finding", FALSE), ContentEntry("recommendation", TRUE),
                   ContentEntry("recommendation", FALSE), ContentEntry("text", FALSE),
                   ContentEntry("undefined", FALSE), ContentEntry("note", FALSE)}

\* The activation: where it stands and, once its promise is rejected, what threw.
Pc(where) == [at |-> where, cause |-> "none"]

Rejected(cause) == [at |-> "rejected", cause |-> cause]

At(where) == pc.at = where

RECURSIVE SumItems(_)
SumItems(r) ==
  IF r = <<>> THEN 0
  ELSE Len(Head(r).charts) + Len(Head(r).content) + SumItems(Tail(r))

\* The section the activation is working on.
Cur == Len(report)

Event(ev, decl) == [ev |-> ev, decl |-> decl]

Timer(id, cfg, decl) == [id |-> id, cfg |-> cfg, decl |-> decl]

\* await this.ensureInitialized(), first statement of buildDemographicsReport.
BuildStart ==
  /\ At("idle")
  /\ isInitialized' = InitializedAfterCall(isInitialized, d3)
  /\ console' = LogAfterCall(console, isInitialized, d3)
  /\ scriptLoads' = IF NeedsScript(isInitialized, d3) THEN scriptLoads + 1 ELSE scriptLoads
  /\ pc' = Pc(IF NeedsScript(isInitialized, d3) THEN "loading" ELSE "document")
  /\ UNCHANGED <<copyVars, contentArea, currentDocument, hasDocument, chartCounter, sectionCounter,
                 d3, timers, uncaught, report, events, callVars, calls, normVars>>

\* script.onload: the script defines d3; initialize() sets the flag and returns.
BuildScriptLoaded ==
  /\ At("loading")
  /\ d3' = "loaded"
  /\ isInitialized' = TRUE
  /\ console' = Append(console, "PageBuilder initialized successfully")
  /\ pc' = Pc("document")
  /\ UNCHANGED <<copyVars, contentArea, currentDocument, hasDocument, chartCounter, sectionCounter,
                 scriptLoads, timers, uncaught, report, events, callVars, calls, normVars>>

\* script.onerror: initialize() logs and rethrows; the report's promise rejects.
BuildScriptFailed ==
  /\ At("loading")
  /\ console' = Append(console, "Failed to initialize PageBuilder:")
  /\ pc' = Rejected("initialize")
  /\ UNCHANGED <<copyVars, contentArea, builderVars, d3, scriptLoads, timers, uncaught, report, events,
                 callVars, calls, normVars>>

\* this.createDocument(...), then the executive summary when one is given.
BuildDocument ==
  /\ At("document")
  /\ \E summary \in BOOLEAN :
       currentDocument' = IF summary THEN addExecutiveSummary(createDocument)
                          ELSE createDocument
  /\ hasDocument' = TRUE
  /\ contentArea' = TRUE
  /\ pc' = Pc("sections")
  /\ UNCHANGED <<copyVars, isInitialized, chartCounter, sectionCounter, pageVars, report, events,
                 callVars, calls, normVars>>

\* for (const sectionData of sections): the next section, or the end of the
\* array, where the function returns and its promise resolves.
BuildSection ==
  /\ At("sections")
  /\ \/ /\ pc' = Pc("done")
        /\ UNCHANGED <<copyVars, contentArea, currentDocument, sectionCounter, report, events>>
     \/ /\ Len(report) < MaxSections
        /\ \E titled \in BOOLEAN :
             /\ currentDocument' = createSection(currentDocument, sectionCounter, titled,
                                                 <<Cur + 1, "section", 0>>)
             /\ sectionCounter' = SectionCounterAfter(sectionCounter, titled)
             /\ report' = Append(report, [titled |-> titled,
                                          id |-> SectionId(sectionCounter, titled),
                                          charts |-> <<>>, content |-> <<>>])
        /\ events' = Append(events, Event("append", <<Cur + 1, "section", 0>>))
        /\ pc' = Pc("charts")
  /\ UNCHANGED <<copyVars, contentArea, isInitialized, hasDocument, chartCounter, pageVars,
                 callVars, calls, normVars>>

\* One iteration of `for (const chartConfig of sectionData.charts)`: the
\* assignment to chartConfig.parentSelector throws on a null entry; a
\* recognised type runs its create*Chart method (ensureInitialized finds the
\* flag set, the container is created, the draw is scheduled); any other
\* type matches no case.
BuildChart ==
  /\ At("charts")
  /\ \/ /\ pc' = Pc("content")
        /\ UNCHANGED <<copyVars, contentArea, currentDocument, chartCounter, timers, report, events>>
     \/ /\ SumItems(report) < MaxItems
        /\ \E cfg \in ChartChoices :
             LET decl == <<Cur, "chart", Len(report[Cur].charts) + 1>>
                 sel == SelSectionById(report[Cur].id)
             IN /\ report' = [report EXCEPT ![Cur].charts = Append(@, cfg)]
                /\ IF cfg.null
                   THEN /\ pc' = Rejected("chart")
                        /\ UNCHANGED <<copyVars, contentArea, currentDocument, chartCounter, timers, events>>
                   ELSE IF DispatchesChart(cfg.type)
                   THEN /\ currentDocument' = createChartContainer(currentDocument,
                                                 chartCounter, cfg.title, sel, decl)
                        /\ chartCounter' = ChartId(chartCounter)
                        /\ timers' = Append(timers, Timer(ChartId(chartCounter), cfg, decl))
                        /\ events' = Append(events, Event("append", decl))
                        /\ pc' = pc
                   ELSE /\ pc' = pc
                        /\ UNCHANGED <<copyVars, contentArea, currentDocument, chartCounter, timers, events>>
  /\ UNCHANGED <<copyVars, contentArea, isInitialized, hasDocument, sectionCounter, d3, scriptLoads, console,
                 uncaught, callVars, calls, normVars>>

\* One iteration of sectionData.content.forEach: dispatch on content.type.
BuildContent ==
  /\ At("content")
  /\ \/ /\ pc' = Pc("sections")
        /\ UNCHANGED <<copyVars, contentArea, currentDocument, report, events>>
     \/ /\ SumItems(report) < MaxItems
        /\ \E c \in ContentChoices :
             LET decl == <<Cur, "content", Len(report[Cur].content) + 1>>
                 sel == SelSectionById(report[Cur].id)
             IN /\ report' = [report EXCEPT ![Cur].content = Append(@, c)]
                /\ currentDocument' =
                     CASE c.type = "finding" -> addKeyFinding(currentDocument, sel, decl)
                       [] c.type = "recommendation" ->
                            addRecommendation(currentDocument, c.priority, sel, decl)
                       [] OTHER -> addTextContent(currentDocument, sel, decl)
                /\ events' = Append(events, Event("append", decl))
        /\ pc' = pc
  /\ UNCHANGED <<copyVars, contentArea, isInitialized, hasDocument, chartCounter, sectionCounter, pageVars,
                 callVars, calls, normVars>>

\* A variant that fires the newest timer first.
TakeNewestTimer(ts) == [next |-> ts[Len(ts)], rest |-> SubSeq(ts, 1, Len(ts) - 1)]

\* setTimeout callbacks all have the same delay: the oldest fires first.
TakeTimer(ts) == [next |-> Head(ts), rest |-> Tail(ts)]

\* A timer callback runs only when no continuation of the activation is
\* runnable: while it waits for nothing, a timer cannot fire.
BuildTimerFire ==
  /\ pc.at \in {"done", "rejected"}
  /\ timers # <<>>
  /\ LET t == TakeTimer(timers).next
         out == DrawOutcome(currentDocument, d3, t.id, t.cfg)
     IN /\ currentDocument' = out.doc
        /\ console' = console \o out.log
        /\ uncaught' = IF out.threw THEN uncaught + 1 ELSE uncaught
        /\ events' = Append(events, Event(IF out.drawn THEN "draw" ELSE "drawFailed", t.decl))
  /\ timers' = TakeTimer(timers).rest
  /\ UNCHANGED <<copyVars, contentArea, isInitialized, hasDocument, chartCounter, sectionCounter, d3, scriptLoads,
                 pc, report, callVars, calls, normVars>>

\* The copy controls of the context menus show their idle text and no copy
\* has been started.
CopyControls == {"chart", "table", "tsv"}

NoCopies ==
  /\ status = [c \in CopyControls |-> "idle"]
  /\ copies = <<>>
  /\ downloads = 0

InitIdle ==
  /\ isInitialized = FALSE
  /\ currentDocument = <<>>
  /\ chartCounter = 0
  /\ sectionCounter = 0
  /\ scriptLoads = 0
  /\ console = <<>>
  /\ timers = <<>>
  /\ uncaught = 0
  /\ pc = Pc("idle")
  /\ report = <<>>
  /\ events = <<>>
  /\ callers = <<>>
  /\ microtasks = <<>>
  /\ calls = <<>>
  /\ datasets = <<>>
  /\ normalizedDatasets = <<>>
  /\ NoCopies

\* A fresh page: the builder as constructed; d3 not declared, declared and
\* holding null, or already loaded.
Init ==
  /\ InitIdle
  /\ hasDocument = FALSE
  /\ contentArea = FALSE
  /\ d3 \in {"undeclared", "falsy", "loaded"}

Next ==
  \/ BuildStart
  \/ BuildScriptLoaded
  \/ BuildScriptFailed
  \/ BuildDocument
  \/ BuildSection
  \/ BuildChart
  \/ BuildContent
  \/ BuildTimerFire

Spec == Init /\ [][Next]_vars

(***************************************************************************)
(* Properties of buildDemographicsReport.                                  *)
(***************************************************************************)
IsItem(decl) == decl[2] \in {"chart", "content"}

\* The assembler's iteration order: sections in order; within a section
\* charts in order, then content blocks in order.
Before(a, b) ==
  \/ a[1] < b[1]
  \/ /\ a[1] = b[1]
     /\ \/ a[2] = "chart" /\ b[2] = "content"
        \/ a[2] = b[2] /\ a[3] < b[3]

Inserted(e) == e.ev = "append" /\ IsItem(e.decl)

Drawing(e) == e.ev \in {"draw", "drawFailed"}

AllTitled == \A k \in 1..Len(report) : report[k].titled

\* C1: when every section is given a title, every chart container and every
\* content block declared in section k lies in the content area of the k-th
\* section, and in no other section's content area.
C1_ItemsInOwnSection ==
  AllTitled =>
    /\ \A i \in 1..Len(currentDocument) :
         currentDocument[i].tag = "section" =>
           \A j \in 1..Len(currentDocument[i].kids) :
             currentDocument[i].kids[j].decl[1] = currentDocument[i].decl[1]
    /\ \A e \in 1..Len(events) :
         Inserted(events[e]) =>
           \E i \in 1..Len(currentDocument) :
             /\ currentDocument[i].tag = "section"
             /\ currentDocument[i].decl[1] = events[e].decl[1]
             /\ \E j \in 1..Len(currentDocument[i].kids) :
                  currentDocument[i].kids[j].decl = events[e].decl

\* Whether event e completes the rendering of the item decl: a content
\* block's insertion, a chart's drawing.
Completes(e, decl) ==
  /\ e.decl = decl
  /\ IF decl[2] = "chart" THEN Drawing(e) ELSE e.ev = "append"

\* C3 as claimed: an item is rendered only after every item earlier in the
\* iteration order has completed its rendering, a chart's drawing included.
C3_RenderedAfterEarlierDrawn ==
  \A h, i \in 1..Len(events) :
    (Inserted(events[h]) /\ Inserted(events[i])
       /\ Before(events[h].decl, events[i].decl))
      => \E c \in 1..(i - 1) : Completes(events[c], events[h].decl)

\* C3, amended: DOM insertions follow the iteration order, and so do the
\* deferred drawings; a chart is drawn only after its container was inserted.
C3_InsertionsAndDrawingsInOrder ==
  /\ \A h, i \in 1..Len(events) :
       (Inserted(events[h]) /\ Inserted(events[i])
          /\ Before(events[h].decl, events[i].decl)) => h < i
  /\ \A h, i \in 1..Len(events) :
       (Drawing(events[h]) /\ Drawing(events[i])
          /\ Before(events[h].decl, events[i].decl)) => h < i
  /\ \A i \in 1..Len(events) :
       Drawing(events[i]) =>
         \E h \in 1..(i - 1) : Inserted(events[h]) /\ events[h].decl = events[i].decl

\* Two charts and their drawings have happened.
C3_Witness ==
  \E h, i \in 1..Len(events) :
    /\ Drawing(events[h]) /\ Drawing(events[i])
    /\ Before(events[h].decl, events[i].decl)

\* The end-to-end report: one section holding the pie chart A, B, C and one finding.
IsE2EReport ==
  /\ Len(report) = 1
  /\ report[1].charts = <<PieABC>>
  /\ report[1].content = <<ContentEntry("finding", FALSE)>>

DocSections == SelectSeq(currentDocument, LAMBDA x : x.tag = "section")

\* The document holds three pie slices followed by one finding element.
E2EDocument ==
  /\ Len(DocSections) = 1
  /\ LET kids == DocSections[1].kids
     IN /\ Len(kids) = 2
        /\ kids[1].tag = "chart"
        /\ Len(kids[1].kids) = 1
        /\ kids[1].kids[1].tag = "svg"
        /\ kids[1].kids[1].n = 3
        /\ kids[2].tag = "key-finding"

\* C4 as claimed: when the promise resolves, the document of the end-to-end
\* report holds three pie slices followed by one finding element.
C4_DrawnWhenResolved ==
  (IsE2EReport /\ At("done") /\ d3 = "loaded") => E2EDocument

\* C4, amended: once the promise has resolved and the deferred draw has run
\* with the charting library loaded, the document holds three pie slices
\* followed by one finding element.
C4_DrawnAfterTimer ==
  (IsE2EReport /\ At("done") /\ timers = <<>> /\ d3 = "loaded") => E2EDocument

C4_Witness ==
  IsE2EReport /\ At("done") /\ timers = <<>> /\ d3 = "loaded" /\ E2EDocument

\* C6: no failure of a chart, at its creation or at its deferred draw, stops
\* the assembly: the promise is never rejected because of a chart entry.
C6_ChartFailureNotFatal ==
  ~(At("rejected") /\ pc.cause = "chart")

(***************************************************************************)
(* The document-structure methods and reset() called directly, in any      *)
(* order, on a builder whose document has been created.  events holds the  *)
(* calls: a call that threw is a "throw" event.                            *)
(***************************************************************************)
ApiDecl == <<Len(events) + 1, "api", 0>>

\* reset(): this.currentDocument.innerHTML = '' removes every child of the
\* document's container, its header and its .report-content included.
ContentAreaAfterReset(has, area) == IF has THEN FALSE ELSE area

\* pageBuilder.createSection({title?}) with no containerId.  The
\* destructuring defaults are evaluated first; without a .report-content
\* querySelector gives null and content.appendChild throws a TypeError.
ApiCreateSection ==
  /\ Len(events) < MaxCalls
  /\ \E titled \in BOOLEAN :
       /\ currentDocument' = IF contentArea
                             THEN createSection(currentDocument, sectionCounter, titled, ApiDecl)
                             ELSE currentDocument
       /\ sectionCounter' = SectionCounterAfter(sectionCounter, titled)
  /\ events' = Append(events, Event(IF contentArea THEN "append" ELSE "throw", ApiDecl))
  /\ UNCHANGED <<copyVars, contentArea, isInitialized, hasDocument, chartCounter, pageVars, pc, report,
                 callVars, calls, normVars>>

\* pageBuilder.createChartContainer({title?, parentSelector?}) with no containerId.
ApiCreateChartContainer ==
  /\ Len(events) < MaxCalls
  /\ \E title \in BOOLEAN, sel \in {SelReportContent, SelSectionContent} :
       currentDocument' = IF contentArea
                          THEN createChartContainer(currentDocument, chartCounter, title, sel,
                                                    ApiDecl)
                          ELSE currentDocument
  /\ chartCounter' = ChartId(chartCounter)
  /\ events' = Append(events, Event(IF contentArea THEN "append" ELSE "throw", ApiDecl))
  /\ UNCHANGED <<copyVars, contentArea, isInitialized, hasDocument, sectionCounter, pageVars, pc, report,
                 callVars, calls, normVars>>

\* pageBuilder.reset().
ApiReset ==
  /\ Len(events) < MaxCalls
  /\ currentDocument' = IF hasDocument THEN <<>> ELSE currentDocument
  /\ contentArea' = ContentAreaAfterReset(hasDocument, contentArea)
  /\ chartCounter' = 0
  /\ sectionCounter' = 0
  /\ events' = Append(events, Event("reset", ApiDecl))
  /\ UNCHANGED <<copyVars, isInitialized, hasDocument, pageVars, pc, report, callVars, calls,
                 normVars>>

InitApi ==
  /\ InitIdle
  /\ hasDocument = TRUE
  /\ contentArea = TRUE
  /\ d3 = "undeclared"

NextApi == ApiCreateSection \/ ApiCreateChartContainer \/ ApiReset

SpecApi == InitApi /\ [][NextApi]_vars

\* The places of the document's sections and of its chart containers.
SectionPlaces == {i \in 1..Len(currentDocument) : currentDocument[i].tag = "section"}

Places ==
  UNION {{<<i, 0>>} \cup {<<i, j>> : j \in 1..Len(currentDocument[i].kids)} :
           i \in 1..Len(currentDocument)}

NodeAt(place) ==
  IF place[2] = 0 THEN currentDocument[place[1]]
  ELSE currentDocument[place[1]].kids[place[2]]

ChartPlaces == {p \in Places : NodeAt(p).tag = "chart"}

\* C2: over any sequence of createSection and createChartContainer calls, the
\* generated section ids are pairwise distinct and the generated chart
\* container ids are pairwise distinct.
C2_GeneratedIdsDistinct ==
  /\ \A i, j \in SectionPlaces :
       i # j => currentDocument[i].id # currentDocument[j].id
  /\ \A p, q \in ChartPlaces :
       p # q => NodeAt(p).id # NodeAt(q).id

(***************************************************************************)
(* Concurrently issued calls of initialize, ensureInitialized and          *)
(* createPieChart on the shared builder; createPieChart is called without  *)
(* a containerId ("createPieChart": it creates its container) or with the  *)
(* containerId 'chart-1' of a container of the page ("createPieChartOn").   *)
(* Caller p is the p-th call issued.  A caller: [kind, at], at being idle, *)
(* loading (its script element is in the page), loaded (its load event has *)
(* fired: the continuation of initialize is queued), unwinding (the        *)
(* continuation of ensureInitialized is queued), ready (the continuation   *)
(* of createPieChart is queued), done or failed.  pc tells whether the     *)
(* microtask queue is being drained: no script runs, and no call is        *)
(* issued, until it is empty.                                              *)
(***************************************************************************)
CallKinds == {"initialize", "ensureInitialized", "createPieChart", "createPieChartOn"}

Caller(kind, at) == [kind |-> kind, at |-> at]

\* The calls issued so far.
Issued == Cardinality({q \in 1..NumCallers : callers[q].at # "idle"})

\* The pie the k-th call asks for: k slices.
PieOf(k) ==
  ChartConfig("pie", FALSE, [i \in 1..k |-> "A"], [i \in 1..k |-> 10], TRUE, 1)

\* Where a call stands when its synchronous part has run: waiting for the
\* script; or, initialize() having completed without waiting, behind the
\* await of ensureInitialized; or, the flag being set, behind the await of
\* createPieChart only.
AfterIssue(kind, initialized, d3State) ==
  IF NeedsScript(initialized, d3State) THEN "loading"
  ELSE IF kind = "initialize" THEN "done"
  ELSE IF ~initialized THEN "unwinding"
  ELSE IF kind = "ensureInitialized" THEN "done"
  ELSE "ready"

\* Where a call stands when its queued continuation has run.
AfterResume(kind, at) ==
  IF at = "loaded" THEN (IF kind = "initialize" THEN "done" ELSE "unwinding")
  ELSE IF at = "unwinding" THEN (IF kind = "ensureInitialized" THEN "done" ELSE "ready")
  ELSE "done"

\* A call is made by running script, not while the microtask queue is
\* being drained.
CallIssue(p) ==
  /\ callers[p].at = "idle"
  /\ p = Issued + 1
  /\ At("idle")
  /\ \E kind \in CallKinds :
       LET at == AfterIssue(kind, isInitialized, d3)
       IN /\ isInitialized' = InitializedAfterCall(isInitialized, d3)
          /\ console' = LogAfterCall(console, isInitialized, d3)
          /\ scriptLoads' = IF NeedsScript(isInitialized, d3) THEN scriptLoads + 1
                            ELSE scriptLoads
          /\ callers' = [callers EXCEPT ![p] = Caller(kind, at)]
          /\ microtasks' = IF at \in {"unwinding", "ready"} THEN Append(microtasks, p)
                           ELSE microtasks
  /\ UNCHANGED <<copyVars, contentArea, currentDocument, hasDocument, chartCounter, sectionCounter, d3,
                 timers, uncaught, reportVars, calls, normVars>>

\* The load event of the script element caller p appended: the script has
\* run and defined d3; loadScript's promise resolves.
CallScriptLoaded(p) ==
  /\ callers[p].at = "loading"
  /\ microtasks = <<>>
  /\ d3' = "loaded"
  /\ callers' = [callers EXCEPT ![p].at = "loaded"]
  /\ microtasks' = <<p>>
  /\ pc' = Pc("draining")
  /\ UNCHANGED <<copyVars, contentArea, builderVars, scriptLoads, console, timers, uncaught, report, events,
                 calls, normVars>>

\* The error event of the script element: initialize logs and rethrows.
CallScriptFailed(p) ==
  /\ callers[p].at = "loading"
  /\ microtasks = <<>>
  /\ console' = Append(console, "Failed to initialize PageBuilder:")
  /\ callers' = [callers EXCEPT ![p].at = "failed"]
  /\ UNCHANGED <<copyVars, contentArea, builderVars, d3, scriptLoads, timers, uncaught, reportVars,
                 microtasks, calls, normVars>>

\* The continuation at the head of the microtask queue.  After a load,
\* initialize sets the flag; ensureInitialized returns; createPieChart
\* creates its container unless it was given one, and schedules the draw.
\* A call that has another await to pass is queued again, at the tail.
CallResume ==
  /\ microtasks # <<>>
  /\ LET p == Head(microtasks)
         decl == <<p, "call", 0>>
         at == AfterResume(callers[p].kind, callers[p].at)
     IN /\ isInitialized' = (isInitialized \/ callers[p].at = "loaded")
        /\ console' = IF callers[p].at = "loaded"
                      THEN Append(console, "PageBuilder initialized successfully")
                      ELSE console
        /\ IF callers[p].at = "ready" /\ callers[p].kind = "createPieChart"
           THEN /\ currentDocument' = createChartContainer(currentDocument, chartCounter,
                                         PieABC.title, SelSectionContent, decl)
                /\ chartCounter' = ChartId(chartCounter)
                /\ timers' = Append(timers, Timer(ChartId(chartCounter), PieABC, decl))
                /\ events' = Append(events, Event("append", decl))
           ELSE IF callers[p].at = "ready"
           THEN /\ timers' = Append(timers, Timer(1, PieOf(p), decl))
                /\ events' = Append(events, Event("schedule", decl))
                /\ UNCHANGED <<currentDocument, chartCounter>>
           ELSE UNCHANGED <<currentDocument, chartCounter, timers, events>>
        /\ callers' = [callers EXCEPT ![p].at = at]
        /\ microtasks' = IF at = "done" THEN Tail(microtasks)
                         ELSE Append(Tail(microtasks), p)
        /\ pc' = IF at = "done" /\ Tail(microtasks) = <<>> THEN Pc("idle")
                 ELSE Pc("draining")
  /\ UNCHANGED <<copyVars, contentArea, hasDocument, sectionCounter, d3, scriptLoads, uncaught, report,
                 calls, normVars>>

\* A draw timer fires when no microtask is queued.
CallTimerFire ==
  /\ microtasks = <<>>
  /\ timers # <<>>
  /\ LET t == TakeTimer(timers).next
         out == DrawOutcome(currentDocument, d3, t.id, t.cfg)
     IN /\ currentDocument' = out.doc
        /\ console' = console \o out.log
        /\ uncaught' = IF out.threw THEN uncaught + 1 ELSE uncaught
        /\ events' = Append(events, Event(IF out.drawn THEN "draw" ELSE "drawFailed", t.decl))
  /\ timers' = TakeTimer(timers).rest
  /\ UNCHANGED <<copyVars, contentArea, isInitialized, hasDocument, chartCounter, sectionCounter, d3, scriptLoads,
                 pc, report, callVars, calls, normVars>>

\* An uninitialised builder with a created document that holds the
\* container chart-1; d3 on the page or not.
InitCalls ==
  /\ isInitialized = FALSE
  /\ currentDocument = createChartContainer(createDocument, 0, FALSE, SelReportContent, NoDecl)
  /\ hasDocument = TRUE
  /\ contentArea = TRUE
  /\ chartCounter = 1
  /\ sectionCounter = 0
  /\ d3 \in {"undeclared", "loaded"}
  /\ scriptLoads = 0
  /\ console = <<>>
  /\ timers = <<>>
  /\ uncaught = 0
  /\ pc = Pc("idle")
  /\ report = <<>>
  /\ events = <<>>
  /\ callers = [p \in 1..NumCallers |-> Caller("none", "idle")]
  /\ microtasks = <<>>
  /\ calls = <<>>
  /\ datasets = <<>>
  /\ normalizedDatasets = <<>>
  /\ NoCopies

NextCalls ==
  \/ \E p \in 1..NumCallers : CallIssue(p)
  \/ \E p \in 1..NumCallers : CallScriptLoaded(p)
  \/ \E p \in 1..NumCallers : CallScriptFailed(p)
  \/ CallResume
  \/ CallTimerFire

SpecCalls == InitCalls /\ [][NextCalls]_vars

\* C5: over any interleaving of concurrently issued calls on an
\* uninitialised builder, the charting-library script is loaded at most once.
C5_ScriptLoadedAtMostOnce == scriptLoads <= 1

(***************************************************************************)
(* createMultiScaleBarChart: the normalisation.                            *)
(* JavaScript numbers are modelled exactly: a number is [nan, num, den],   *)
(* the rational num/den with den > 0, or NaN.  A data array is a sequence  *)
(* of integers; reading past its end gives undefined, which Math.min and   *)
(* Math.max turn into NaN.                                                 *)
(***************************************************************************)
Values == {-10, -5, 0, 5, 7, 10, 20}

Num(n, d) == [nan |-> FALSE, num |-> n, den |-> d]

NaN == [nan |-> TRUE, num |-> 0, den |-> 1]

Abs(x) == IF x < 0 THEN -x ELSE x

\* ds.data[i]
Defined(data, i) == i <= Len(data)

\* datasets.map(ds => ds.data[i])
valuesForThisVariable(dss, i) ==
  [k \in 1..Len(dss) |-> IF Defined(dss[k].data, i) THEN Num(dss[k].data[i], 1) ELSE NaN]

\* Math.min(...values), Math.max(...values) of a non-empty array.
RECURSIVE MathMin(_)
MathMin(vals) ==
  IF Len(vals) = 1 THEN Head(vals)
  ELSE LET rest == MathMin(Tail(vals))
       IN IF Head(vals).nan \/ rest.nan THEN NaN
          ELSE IF Head(vals).num <= rest.num THEN Head(vals) ELSE rest

RECURSIVE MathMax(_)
MathMax(vals) ==
  IF Len(vals) = 1 THEN Head(vals)
  ELSE LET rest == MathMax(Tail(vals))
       IN IF Head(vals).nan \/ rest.nan THEN NaN
          ELSE IF Head(vals).num >= rest.num THEN Head(vals) ELSE rest

\* A variant that centres every column at 50.
NormalizeCentred(v, min, max) ==
  IF min.nan \/ max.nan THEN NaN
  ELSE IF min.num = max.num THEN Num(50, 1)
  ELSE LET maxAbs == IF Abs(min.num) >= Abs(max.num) THEN Abs(min.num) ELSE Abs(max.num)
       IN Num(v * 50 + 50 * maxAbs, maxAbs)

\* A variant that anchors a mixed-sign column at its maximum.
NormalizeAnchored(v, min, max) ==
  IF min.nan \/ max.nan THEN NaN
  ELSE IF min.num = max.num THEN Num(50, 1)
  ELSE IF min.num >= 0 THEN Num(v * 100, max.num)
  ELSE IF max.num <= 0 THEN Num(v * 100, Abs(min.num))
  ELSE Num(v * 100, max.num)

\* A variant that tests the sign of the column before its spread.
NormalizeSignFirst(v, min, max) ==
  IF min.nan \/ max.nan THEN NaN
  ELSE IF min.num >= 0 /\ max.num > 0 THEN Num(v * 100, max.num)
  ELSE IF max.num <= 0 /\ min.num < 0 THEN Num(v * 100, Abs(min.num))
  ELSE IF min.num = max.num THEN Num(50, 1)
  ELSE LET maxAbs == IF Abs(min.num) >= Abs(max.num) THEN Abs(min.num) ELSE Abs(max.num)
       IN Num(v * 50 + 50 * maxAbs, maxAbs)

\* The four branches on min and max; every comparison with NaN is false, so
\* a NaN column reaches the last branch and yields NaN.
Normalize(v, min, max) ==
  IF min.nan \/ max.nan THEN NaN
  ELSE IF min.num = max.num THEN Num(50, 1)
  ELSE IF min.num >= 0 THEN Num(v * 100, max.num)
  ELSE IF max.num <= 0 THEN Num(v * 100, Abs(min.num))
  ELSE LET maxAbs == IF Abs(min.num) >= Abs(max.num) THEN Abs(min.num) ELSE Abs(max.num)
       IN Num(v * 50 + 50 * maxAbs, maxAbs)

\* A variant that hands the normalised values on as the original ones.
NormalizeDatasetsInPlace(dss) ==
  [k \in 1..Len(dss) |->
     [data |-> [i \in 1..Len(dss[k].data) |->
                  Normalize(dss[k].data[i],
                            MathMin(valuesForThisVariable(dss, i)),
                            MathMax(valuesForThisVariable(dss, i)))],
      originalData |-> [i \in 1..Len(dss[k].data) |->
                  Normalize(dss[k].data[i],
                            MathMin(valuesForThisVariable(dss, i)),
                            MathMax(valuesForThisVariable(dss, i))).num]]]

\* datasets.map(...): data is replaced by the normalised values and the
\* input array is kept as originalData.
NormalizeDatasets(dss) ==
  [k \in 1..Len(dss) |->
     [data |-> [i \in 1..Len(dss[k].data) |->
                  Normalize(dss[k].data[i],
                            MathMin(valuesForThisVariable(dss, i)),
                            MathMax(valuesForThisVariable(dss, i)))],
      originalData |-> dss[k].data]]

DataArrays == UNION {[1..n -> Values] : n \in 0..MaxLen}

\* createMultiScaleBarChart(containerId, labels, datasets) with d3 loaded.
MultiScaleRender ==
  /\ At("idle")
  /\ normalizedDatasets' = NormalizeDatasets(datasets)
  /\ pc' = Pc("done")
  /\ UNCHANGED <<copyVars, contentArea, builderVars, pageVars, report, events, callVars, calls, datasets>>

InitNorm ==
  /\ isInitialized = TRUE
  /\ currentDocument = <<>>
  /\ hasDocument = TRUE
  /\ contentArea = TRUE
  /\ chartCounter = 0
  /\ sectionCounter = 0
  /\ d3 = "loaded"
  /\ scriptLoads = 0
  /\ console = <<>>
  /\ timers = <<>>
  /\ uncaught = 0
  /\ pc = Pc("idle")
  /\ report = <<>>
  /\ events = <<>>
  /\ callers = <<>>
  /\ microtasks = <<>>
  /\ calls = <<>>
  /\ \E n \in 1..MaxSeries :
       datasets \in [1..n -> {[data |-> d] : d \in DataArrays}]
  /\ normalizedDatasets = <<>>
  /\ NoCopies

NextNorm == MultiScaleRender

SpecNorm == InitNorm /\ [][NextNorm]_vars

\* The values of all series at position i, when every series has one.
ColumnComplete(i) == \A k \in 1..Len(datasets) : i <= Len(datasets[k].data)

Column(i) == {datasets[k].data[i] : k \in 1..Len(datasets)}

SetMax(S) == CHOOSE m \in S : \A x \in S : x <= m

SetMin(S) == CHOOSE m \in S : \A x \in S : m <= x

\* The number x equals the rational n/d (d > 0).
Equals(x, n, d) == ~x.nan /\ x.num * d = n * x.den

Positions == 1..MaxLen

\* C9: in a column whose values are not all equal, when all values are >= 0
\* each normalised value is value / max * 100, and when all values are <= 0
\* each is value / |min| * 100.
C9_SingleSignColumns ==
  At("done") =>
    \A i \in Positions :
      (ColumnComplete(i) /\ Cardinality(Column(i)) > 1) =>
        \A k \in 1..Len(datasets) :
          /\ (\A x \in Column(i) : x >= 0) =>
               Equals(normalizedDatasets[k].data[i],
                      datasets[k].data[i] * 100, SetMax(Column(i)))
          /\ (\A x \in Column(i) : x <= 0) =>
               Equals(normalizedDatasets[k].data[i],
                      datasets[k].data[i] * 100, Abs(SetMin(Column(i))))

\* The column [10, 5] has been normalised to [100, 50].
C9_Witness ==
  /\ At("done")
  /\ Len(datasets) = 2
  /\ datasets[1].data = <<10>> /\ datasets[2].data = <<5>>
  /\ Equals(normalizedDatasets[1].data[1], 100, 1)
  /\ Equals(normalizedDatasets[2].data[1], 50, 1)

\* C10: in a column holding a negative and a positive value, each normalised
\* value is value / max(|min|, |max|) * 50 + 50.
C10_MixedSignColumns ==
  At("done") =>
    \A i \in Positions :
      (ColumnComplete(i) /\ (\E x \in Column(i) : x < 0) /\ (\E x \in Column(i) : x > 0)) =>
        LET maxAbs == SetMax({Abs(x) : x \in Column(i)})
        IN \A k \in 1..Len(datasets) :
             Equals(normalizedDatasets[k].data[i],
                    datasets[k].data[i] * 50 + 50 * maxAbs, maxAbs)

\* The column [-10, 20] has been normalised to [25, 100].
C10_Witness ==
  /\ At("done")
  /\ Len(datasets) = 2
  /\ datasets[1].data = <<-10>> /\ datasets[2].data = <<20>>
  /\ Equals(normalizedDatasets[1].data[1], 25, 1)
  /\ Equals(normalizedDatasets[2].data[1], 100, 1)

\* C11: in a column where every series holds the same value, every
\* normalised value is exactly 50, whatever the sign of that value.
C11_DegenerateColumns ==
  At("done") =>
    \A i \in Positions :
      (ColumnComplete(i) /\ Cardinality(Column(i)) = 1) =>
        \A k \in 1..Len(datasets) : Equals(normalizedDatasets[k].data[i], 50, 1)

\* The column [7, 7] has been normalised to [50, 50].
C11_Witness ==
  /\ At("done")
  /\ Len(datasets) = 2
  /\ datasets[1].data = <<7>> /\ datasets[2].data = <<7>>
  /\ Equals(normalizedDatasets[1].data[1], 50, 1)
  /\ Equals(normalizedDatasets[2].data[1], 50, 1)

\* All series have the same length.
EqualLengths ==
  \A k, l \in 1..Len(datasets) : Len(datasets[k].data) = Len(datasets[l].data)

\* C12: for series of equal length, every normalised value lies in the
\* closed range [0, 100].
C12_NormalizedInRange ==
  (At("done") /\ EqualLengths) =>
    \A k \in 1..Len(datasets) :
      \A i \in 1..Len(datasets[k].data) :
        LET x == normalizedDatasets[k].data[i]
        IN ~x.nan /\ 0 <= x.num /\ x.num <= 100 * x.den

DataShapes == {<<1, 2>>, <<1>>, <<1, 2, 3>>}

RenderConfigs ==
  {ChartConfig(kind, FALSE, <<"A", "B">>, data, TRUE, 2) :
     kind \in ChartKinds, data \in DataShapes}
    \cup {ChartConfig(kind, FALSE, <<"A", "B">>, <<>>, FALSE, 2) : kind \in ChartKinds}

\* validateChartData(labels, data) on two arrays: a warning when the lengths
\* differ; it returns true either way.
validateChartData(log, labels, data) ==
  IF Len(labels) # Len(data)
  THEN Append(log, "Labels and data arrays have different lengths")
  ELSE log

\* The renderer a create*Chart timer would call, called on chart-1.
RenderCall ==
  /\ Len(calls) < MaxRenders
  /\ \E cfg \in RenderConfigs :
       LET path == SelectChart(currentDocument, 1)
           out == DrawOutcome(currentDocument, d3, 1, cfg)
       IN /\ currentDocument' = out.doc
          /\ console' = console \o out.log
          /\ uncaught' = IF out.threw THEN uncaught + 1 ELSE uncaught
          /\ calls' = Append(calls,
                 [cfg |-> cfg, d3 |-> d3,
                  before |-> SurfaceKids(currentDocument, path),
                  after |-> SurfaceKids(out.doc, path),
                  threw |-> out.threw,
                  result |-> Render(d3, SurfaceKids(currentDocument, path), cfg).result,
                  logged |-> out.log])
  /\ UNCHANGED <<copyVars, contentArea, isInitialized, hasDocument, chartCounter, sectionCounter, d3, scriptLoads,
                 timers, reportVars, callVars, normVars>>

\* pageBuilder.validateChartData(labels, data), called by the page.
ValidateCall ==
  /\ Len(console) < MaxRenders
  /\ \E data \in DataShapes :
       console' = validateChartData(console, <<"A", "B">>, data)
  /\ UNCHANGED <<copyVars, contentArea, builderVars, d3, scriptLoads, timers, uncaught, reportVars,
                 callVars, calls, normVars>>

\* A script element for d3 placed in the page finishes loading.
LibraryLoaded ==
  /\ d3 # "loaded"
  /\ d3' = "loaded"
  /\ UNCHANGED <<copyVars, contentArea, builderVars, scriptLoads, console, timers, uncaught, reportVars,
                 callVars, calls, normVars>>

\* A document holding the titled container chart-1; d3 not declared, declared
\* without a value, or loaded.
InitRender ==
  /\ isInitialized = FALSE
  /\ currentDocument = createChartContainer(createDocument, 0, TRUE, SelReportContent, NoDecl)
  /\ hasDocument = TRUE
  /\ contentArea = TRUE
  /\ chartCounter = 1
  /\ sectionCounter = 0
  /\ d3 \in {"undeclared", "falsy", "loaded"}
  /\ scriptLoads = 0
  /\ console = <<>>
  /\ timers = <<>>
  /\ uncaught = 0
  /\ pc = Pc("idle")
  /\ report = <<>>
  /\ events = <<>>
  /\ callers = <<>>
  /\ microtasks = <<>>
  /\ calls = <<>>
  /\ datasets = <<>>
  /\ normalizedDatasets = <<>>
  /\ NoCopies

NextRender == RenderCall \/ ValidateCall \/ LibraryLoaded

SpecRender == InitRender /\ [][NextRender]_vars

Logged(call, msg) == \E i \in 1..Len(call.logged) : call.logged[i] = msg

\* C7: a renderer called while the charting library is unavailable logs the
\* error, returns null, leaves the surface as it was and throws nothing.
C7_UnavailableLibraryHandled ==
  \A c \in 1..Len(calls) :
    calls[c].d3 # "loaded" =>
      /\ ~calls[c].threw
      /\ calls[c].result = "null"
      /\ Logged(calls[c], "D3.js not loaded")
      /\ calls[c].after = calls[c].before

\* C8: a chart rendered with labels and a data series of different lengths
\* logs the length-mismatch warning, throws nothing and produces a visual.
C8_MismatchWarnedAndRendered ==
  \A c \in 1..Len(calls) :
    (calls[c].d3 = "loaded" /\ calls[c].cfg.hasData
       /\ Len(calls[c].cfg.labels) # Len(calls[c].cfg.data)) =>
      /\ Logged(calls[c], "Labels and data arrays have different lengths")
      /\ ~calls[c].threw
      /\ calls[c].result = "chart"

\* The visuals, svg or table elements, among the children of a surface.
Visuals(kids) == {i \in 1..Len(kids) : kids[i].tag \in {"svg", "table"}}

Returned(call) == ~call.threw /\ call.result = "chart"

\* C19: a renderer call that returns its chart leaves on the surface exactly
\* one visual, an svg or a table, holding the marks of that call's data,
\* whatever the surface held before; the surface keeps it until the next
\* call, and a second call with the same configuration leaves the surface
\* as the first did.
C19_RenderersReplace ==
  /\ \A c \in 1..Len(calls) :
       Returned(calls[c]) =>
         /\ Cardinality(Visuals(calls[c].after)) = 1
         /\ \A i \in Visuals(calls[c].after) :
              /\ calls[c].after[i].n = Marks(calls[c].cfg)
              /\ calls[c].after[i].tag = "table" <=> calls[c].cfg.type = "table"
         /\ \A e \in 1..Len(calls) :
              (Returned(calls[e]) /\ calls[e].cfg = calls[c].cfg) =>
                calls[e].after = calls[c].after
  /\ Len(calls) > 0 =>
       SurfaceKids(currentDocument, SelectChart(currentDocument, 1)) = calls[Len(calls)].after

\* A table of two rows was rendered on the surface and then a pie of three
\* slices: the surface holds the pie alone.
C19_Witness ==
  /\ Len(calls) = 2
  /\ calls[1].cfg.type = "table" /\ Returned(calls[1])
  /\ calls[2].cfg.type = "pie" /\ Returned(calls[2])
  /\ Cardinality(Visuals(calls[1].after)) = 1
  /\ Cardinality(Visuals(calls[2].before)) = 1
  /\ Cardinality(Visuals(calls[2].after)) = 1

(***************************************************************************)
(* CHART_COLORS and getColors.  calls holds one record per getColors call: *)
(* its arguments and the array it returned.                                *)
(***************************************************************************)
MaxCount == 16

CHART_COLORS ==
  [primary |-> "#3498db",
   palette |-> <<"#3498db", "#2ecc71", "#f39c12", "#e74c3c", "#9b59b6",
                 "#1abc9c", "#34495e", "#f1c40f", "#e67e22", "#95a5a6",
                 "#2980b9", "#27ae60", "#d35400", "#c0392b", "#8e44ad">>,
   gender |-> [male |-> "#4a90e2", female |-> "#50e3c2"]]

\* CHART_COLORS.palette[i % CHART_COLORS.palette.length], i counted from 0.
PaletteColor(i) == CHART_COLORS.palette[(i % Len(CHART_COLORS.palette)) + 1]

\* A variant whose gender mode returns no more colours than were asked for.
getColorsUpToCount(count, type) ==
  IF type = "gender"
  THEN SubSeq(<<CHART_COLORS.gender.male, CHART_COLORS.gender.female>>, 1,
              IF count < 2 THEN count ELSE 2)
  ELSE [i \in 1..count |-> PaletteColor(i - 1)]

\* A variant that repeats the last palette entry instead of cycling.
getColorsClamped(count, type) ==
  IF type = "gender"
  THEN <<CHART_COLORS.gender.male, CHART_COLORS.gender.female>>
  ELSE [i \in 1..count |->
          CHART_COLORS.palette[IF i > Len(CHART_COLORS.palette)
                               THEN Len(CHART_COLORS.palette) ELSE i]]

\* getColors(count, type = 'palette')
getColors(count, type) ==
  IF type = "gender"
  THEN <<CHART_COLORS.gender.male, CHART_COLORS.gender.female>>
  ELSE [i \in 1..count |-> PaletteColor(i - 1)]

ColorTypes == {"palette", "gender"}

\* getColors(count, type), called by a renderer or by the page.
GetColorsCall ==
  /\ Len(calls) < MaxRenders
  /\ \E count \in 0..MaxCount, type \in ColorTypes :
       calls' = Append(calls, [count |-> count, type |-> type,
                               result |-> getColors(count, type)])
  /\ UNCHANGED <<copyVars, contentArea, builderVars, pageVars, reportVars, callVars, normVars>>

InitColors ==
  /\ isInitialized = TRUE
  /\ currentDocument = <<>>
  /\ hasDocument = TRUE
  /\ contentArea = TRUE
  /\ chartCounter = 0
  /\ sectionCounter = 0
  /\ d3 = "loaded"
  /\ scriptLoads = 0
  /\ console = <<>>
  /\ timers = <<>>
  /\ uncaught = 0
  /\ pc = Pc("idle")
  /\ report = <<>>
  /\ events = <<>>
  /\ callers = <<>>
  /\ microtasks = <<>>
  /\ calls = <<>>
  /\ datasets = <<>>
  /\ normalizedDatasets = <<>>
  /\ NoCopies

NextColors == GetColorsCall

SpecColors == InitColors /\ [][NextColors]_vars

\* C14: in gender mode getColors returns exactly the male colour followed by
\* the female colour, for every requested count.
C14_GenderModeTwoColors ==
  \A c \in 1..Len(calls) :
    calls[c].type = "gender" =>
      calls[c].result = <<"#4a90e2", "#50e3c2">>

\* Gender mode was asked for no colour, for one and for more than two.
C14_Witness ==
  /\ Len(calls) = 2
  /\ calls[1].type = "gender" /\ calls[1].count = 0 /\ Len(calls[1].result) = 2
  /\ calls[2].type = "gender" /\ calls[2].count > 2 /\ Len(calls[2].result) = 2

\* C15: in palette mode getColors returns exactly count colours, the i-th
\* (from 0) being palette entry i mod 15, and two calls with the same count
\* return the same sequence.
C15_PaletteModeCycles ==
  \A c \in 1..Len(calls) :
    calls[c].type = "palette" =>
      /\ Len(calls[c].result) = calls[c].count
      /\ \A i \in 0..(calls[c].count - 1) :
           calls[c].result[i + 1] = CHART_COLORS.palette[(i % 15) + 1]
      /\ \A e \in 1..Len(calls) :
           (calls[e].type = "palette" /\ calls[e].count = calls[c].count) =>
             calls[e].result = calls[c].result

\* Palette mode was asked twice for 16 colours; the sixteenth is the first
\* palette entry again.
C15_Witness ==
  /\ Len(calls) = 2
  /\ calls[1].type = "palette" /\ calls[1].count = 16
  /\ calls[2].type = "palette" /\ calls[2].count = 16
  /\ calls[1].result[16] = "#3498db"
  /\ calls[2].result = calls[1].result

(***************************************************************************)
(* createMultiSeriesBarChart: the colours of the series.  datasets is the  *)
(* input, a sequence of [label, backgroundColor]; calls receives one       *)
(* record with the fill of the bars of every series.                       *)
(***************************************************************************)
SeriesNames ==
  <<"S1", "S2", "S3", "S4", "S5", "S6", "S7", "S8", "S9", "S10",
    "S11", "S12", "S13", "S14", "S15", "S16", "S17", "S18", "S19", "S20">>

\* Labels a caller may give a series in place of its own name.
GivenLabels == {"Male", "Female", "male", "Other"}

NoColor == "none"

\* n series named S1..Sn, the first, the second and the last of them
\* possibly relabelled, all with or all without a colour of the caller's.
SeriesInputs ==
  {[k \in 1..n |->
      [label |-> IF k = 1 /\ a # "own" THEN a
                 ELSE IF k = 2 /\ b # "own" THEN b
                 ELSE IF k = n /\ c # "own" THEN c
                 ELSE SeriesNames[k],
       backgroundColor |-> color]] :
     n \in 1..MaxCount,
     a \in GivenLabels \cup {"own"},
     b \in GivenLabels \cup {"own"},
     c \in GivenLabels \cup {"own"},
     color \in {NoColor, "#000000"}}

\* datasets.map((dataset, index) => ({...dataset, backgroundColor: ...}))
coloredDatasets(dss) ==
  [k \in 1..Len(dss) |->
     [label |-> dss[k].label,
      backgroundColor |->
        IF dss[k].label = "Male" THEN CHART_COLORS.gender.male
        ELSE IF dss[k].label = "Female" THEN CHART_COLORS.gender.female
        ELSE PaletteColor(k - 1)]]

\* d3.scaleOrdinal().domain(names): the names without repetitions, in the
\* order of their first occurrence.
RECURSIVE OrdinalDomain(_)
OrdinalDomain(names) ==
  IF names = <<>> THEN <<>>
  ELSE LET front == OrdinalDomain(SubSeq(names, 1, Len(names) - 1))
           last == names[Len(names)]
       IN IF \E i \in 1..Len(front) : front[i] = last THEN front
          ELSE Append(front, last)

\* color(key) of d3.scaleOrdinal().domain(names).range(range), for a key of
\* the domain: the range entry at the key's position in the domain.
ScaleOrdinal(names, range, key) ==
  LET domain == OrdinalDomain(names)
      i == CHOOSE j \in 1..Len(domain) : domain[j] = key
  IN range[((i - 1) % Len(range)) + 1]

\* .attr('fill', d => color(d.key)) for the bars of every series.
SeriesFills(dss) ==
  LET colored == coloredDatasets(dss)
      seriesNames == [k \in 1..Len(colored) |-> colored[k].label]
      range == [k \in 1..Len(colored) |-> colored[k].backgroundColor]
  IN [k \in 1..Len(dss) |-> ScaleOrdinal(seriesNames, range, seriesNames[k])]

\* createMultiSeriesBarChart(containerId, labels, datasets) with d3 loaded.
MultiSeriesRender ==
  /\ At("idle")
  /\ calls' = Append(calls, [assigned |-> coloredDatasets(datasets),
                             fills |-> SeriesFills(datasets)])
  /\ pc' = Pc("done")
  /\ UNCHANGED <<copyVars, contentArea, builderVars, pageVars, report, events, callVars, normVars>>

InitSeries ==
  /\ isInitialized = TRUE
  /\ currentDocument = <<>>
  /\ hasDocument = TRUE
  /\ contentArea = TRUE
  /\ chartCounter = 0
  /\ sectionCounter = 0
  /\ d3 = "loaded"
  /\ scriptLoads = 0
  /\ console = <<>>
  /\ timers = <<>>
  /\ uncaught = 0
  /\ pc = Pc("idle")
  /\ report = <<>>
  /\ events = <<>>
  /\ callers = <<>>
  /\ microtasks = <<>>
  /\ calls = <<>>
  /\ datasets \in SeriesInputs
  /\ normalizedDatasets = <<>>
  /\ NoCopies

NextSeries == MultiSeriesRender

SpecSeries == InitSeries /\ [][NextSeries]_vars

\* C16: the bars of a series labelled exactly 'Male' or 'Female' are filled
\* with the male or the female colour, whatever its index and whatever
\* colour the caller supplied; the bars of any other series at index k are
\* filled with palette entry k mod 15.
C16_SeriesColors ==
  At("done") =>
    \A k \in 1..Len(datasets) :
      calls[1].fills[k] =
        IF datasets[k].label = "Male" THEN "#4a90e2"
        ELSE IF datasets[k].label = "Female" THEN "#50e3c2"
        ELSE CHART_COLORS.palette[((k - 1) % 15) + 1]

(***************************************************************************)
(* createPieChart and createDoughnutChart: the numeric label of a slice.   *)
(* datasets is the input, one record [type, data] with as many labels as   *)
(* values; calls receives one record with, for every slice, whether a      *)
(* non-empty numeric label is drawn on it.                                 *)
(***************************************************************************)
MaxSlices == 2

SliceValues == {1, 4, 5, 6, 20, 95}

SliceInputs ==
  {[type |-> t, data |-> d] :
     t \in {"pie", "doughnut"},
     d \in UNION {[1..n -> SliceValues] : n \in 1..MaxSlices}}

\* .text(d => d.data.value > 5 ? `${d.data.value.toFixed(1)}%` : '')
PieLabelShown(value) == value > 5

\* The text elements appended to the arcs: createPieChart appends one per
\* slice, createDoughnutChart appends none.
SliceLabels(type, data) ==
  [i \in 1..Len(data) |-> IF type = "pie" THEN PieLabelShown(data[i]) ELSE FALSE]

\* createPieChart / createDoughnutChart(containerId, labels, data) with d3
\* loaded.
SliceRender ==
  /\ At("idle")
  /\ calls' = Append(calls, [labelShown |-> SliceLabels(datasets.type, datasets.data)])
  /\ pc' = Pc("done")
  /\ UNCHANGED <<copyVars, contentArea, builderVars, pageVars, report, events, callVars, normVars>>

InitSlices ==
  /\ isInitialized = TRUE
  /\ currentDocument = <<>>
  /\ hasDocument = TRUE
  /\ contentArea = TRUE
  /\ chartCounter = 0
  /\ sectionCounter = 0
  /\ d3 = "loaded"
  /\ scriptLoads = 0
  /\ console = <<>>
  /\ timers = <<>>
  /\ uncaught = 0
  /\ pc = Pc("idle")
  /\ report = <<>>
  /\ events = <<>>
  /\ callers = <<>>
  /\ microtasks = <<>>
  /\ calls = <<>>
  /\ datasets \in SliceInputs
  /\ normalizedDatasets = <<>>
  /\ NoCopies

NextSlices == SliceRender

SpecSlices == InitSlices /\ [][NextSlices]_vars

RECURSIVE SumSeq(_)
SumSeq(seq) == IF seq = <<>> THEN 0 ELSE Head(seq) + SumSeq(Tail(seq))

\* C17: on a pie or doughnut chart the numeric label of a slice is left out
\* exactly when the slice's share of the total, value / sum, is below 5%.
C17_LabelByShare ==
  At("done") =>
    \A i \in 1..Len(datasets.data) :
      calls[1].labelShown[i] <=> ~(datasets.data[i] * 100 < 5 * SumSeq(datasets.data))

(***************************************************************************)
(* createDataTable: the rows of the table.  A JavaScript value is a record *)
(* tagged with its type: a number, a string, null, undefined, an array     *)
(* [label, value] or an object {label, value}.  The numbers of the model   *)
(* are multiples of 0.01, held in hundredths: JsNumber(756) is 7.56.       *)
(* datasets is the logical list of rows the page wants to show; calls      *)
(* holds one record per call: the shape the rows were passed in, whether a *)
(* formatter was supplied, whether the call threw and what every cell of   *)
(* every row displays.                                                     *)
(***************************************************************************)
MaxRows == 2

JsNumber(n) == [t |-> "number", n |-> n, s |-> ""]

JsString(str) == [t |-> "string", n |-> 0, s |-> str]

JsNull == [t |-> "null", n |-> 0, s |-> ""]

JsUndefined == [t |-> "undefined", n |-> 0, s |-> ""]

JsPair(label, value) == [t |-> "array", label |-> label, value |-> value]

JsObject(label, value) == [t |-> "object", label |-> label, value |-> value]

\* ToBoolean(x) of a primitive value.
Truthy(x) ==
  /\ x.t \notin {"null", "undefined"}
  /\ x.t = "number" => x.n # 0
  /\ x.t = "string" => x.s # ""

\* typeof x === 'object'
TypeofObject(x) == x.t \in {"object", "array", "null"}

\* What a cell displays: the value v as it is ("plain"), v written by
\* toLocaleString ("locale"), v written by toFixed(1) ("fixed1"), or the
\* result of the caller's formatter applied to (v, row, col).
Display(fmt, v, row, col) == [fmt |-> fmt, v |-> v, row |-> row, col |-> col]

\* x.toFixed(1) of a number whose hundredths digit is not 5: the nearest
\* multiple of 0.1.
ToFixed1(x) ==
  JsNumber(IF x.n >= 0 THEN ((x.n + 5) \div 10) * 10 ELSE -(((5 - x.n) \div 10) * 10))

\* A variant of the default rules that leaves every number as it is.
CellTextPlain(cellData) ==
  IF cellData.t \in {"null", "undefined"} THEN Display("plain", JsString(""), -1, -1)
  ELSE Display("plain", cellData, -1, -1)

\* The default rules: a number from 1000 on is written by toLocaleString,
\* any other number that is not an integer by toFixed(1), everything else
\* is displayed as it is; selection.text shows nothing for null and
\* undefined.
CellText(cellData) ==
  IF cellData.t \in {"null", "undefined"} THEN Display("plain", JsString(""), -1, -1)
  ELSE IF cellData.t = "number" /\ cellData.n >= 100000
       THEN Display("locale", cellData, -1, -1)
  ELSE IF cellData.t = "number" /\ cellData.n % 100 # 0
       THEN Display("fixed1", ToFixed1(cellData), -1, -1)
  ELSE Display("plain", cellData, -1, -1)

\* displayValue of the cell j of row i (both counted from 0): the formatter
\* is used for the cells after the first when one is supplied.
DisplayValue(cellData, i, j, formatter) ==
  IF j > 0 /\ formatter THEN Display("formatter", cellData, i, j)
  ELSE CellText(cellData)

TableLabels == {JsString("A"), JsString(""), JsNumber(0)}

TableValues == {JsNumber(500), JsNumber(123456), JsNumber(-756), JsString("x"), JsNull}

LogicalRows ==
  UNION {[1..n -> {[label |-> l, value |-> v] : l \in TableLabels, v \in TableValues}] :
           n \in 0..MaxRows}

TableShapes == {"parallel", "pairs", "records"}

\* The labels and data arguments that describe rows in the given shape.
ShapeArguments(rows, shape) ==
  [labels |-> [i \in 1..Len(rows) |-> rows[i].label],
   data |-> [i \in 1..Len(rows) |->
               IF shape = "parallel" THEN rows[i].value
               ELSE IF shape = "pairs" THEN JsPair(rows[i].label, rows[i].value)
               ELSE JsObject(rows[i].label, rows[i].value)]]

\* item.label || item.name || item.key and item.value of an item that is
\* not null or undefined; only objects of the model have these properties.
ItemRow(item) ==
  IF item.t = "object"
  THEN <<IF Truthy(item.label) THEN item.label ELSE JsUndefined, item.value>>
  ELSE <<JsUndefined, JsUndefined>>

\* tableData, or the TypeError of reading a property of null.
TableData(labels, data) ==
  LET first == IF Len(data) = 0 THEN JsUndefined ELSE data[1]
  IN IF first.t = "array"
     THEN [threw |-> FALSE,
           rows |-> [i \in 1..Len(data) |->
                       IF data[i].t = "array" THEN <<data[i].label, data[i].value>>
                       ELSE <<>>]]
     ELSE IF TypeofObject(first)
     THEN IF \E i \in 1..Len(data) : data[i].t \in {"null", "undefined"}
          THEN [threw |-> TRUE, rows |-> <<>>]
          ELSE [threw |-> FALSE, rows |-> [i \in 1..Len(data) |-> ItemRow(data[i])]]
     ELSE [threw |-> FALSE,
           rows |-> [i \in 1..Len(labels) |->
                       <<labels[i], IF i <= Len(data) THEN data[i] ELSE JsUndefined>>]]

\* What the cells of the rows appended to tbody display.
TableRows(labels, data, formatter) ==
  LET td == TableData(labels, data)
  IN [threw |-> td.threw,
      rows |-> [i \in 1..Len(td.rows) |->
                  [j \in 1..Len(td.rows[i]) |->
                     DisplayValue(td.rows[i][j], i - 1, j - 1, formatter)]]]

\* createDataTable(containerId, labels, data, {formatValue}) with d3 loaded,
\* the rows passed in one of the three shapes, with or without a formatter.
TableRender ==
  /\ Len(calls) < MaxRenders
  /\ \E shape \in TableShapes, formatter \in BOOLEAN :
       LET args == ShapeArguments(datasets, shape)
           out == TableRows(args.labels, args.data, formatter)
       IN calls' = Append(calls, [shape |-> shape, formatter |-> formatter,
                                  threw |-> out.threw, rows |-> out.rows])
  /\ UNCHANGED <<copyVars, contentArea, builderVars, pageVars, reportVars, callVars, normVars>>

InitTable ==
  /\ isInitialized = TRUE
  /\ currentDocument = <<>>
  /\ hasDocument = TRUE
  /\ contentArea = TRUE
  /\ chartCounter = 0
  /\ sectionCounter = 0
  /\ d3 = "loaded"
  /\ scriptLoads = 0
  /\ console = <<>>
  /\ timers = <<>>
  /\ uncaught = 0
  /\ pc = Pc("idle")
  /\ report = <<>>
  /\ events = <<>>
  /\ callers = <<>>
  /\ microtasks = <<>>
  /\ calls = <<>>
  /\ datasets \in LogicalRows
  /\ normalizedDatasets = <<>>
  /\ NoCopies

NextTable == TableRender

SpecTable == InitTable /\ [][NextTable]_vars

\* C18: the same logical rows passed as parallel arrays, as pairs or as
\* records, with the same formatting, give the same rows with the same cell
\* contents.
C18_ShapesEquivalent ==
  \A c, e \in 1..Len(calls) :
    /\ ~calls[c].threw
    /\ calls[c].formatter = calls[e].formatter => calls[c].rows = calls[e].rows

(***************************************************************************)
(* The clipboard copy functions behind the context menus: the option       *)
(* "chart" calls copyChartToClipboard, "table" copyTableToClipboard and    *)
(* "tsv" copyTableAsTSV.  status[c] is the text the control shows: "idle"  *)
(* stands for its own label, the others for the feedback texts.  A copy    *)
(* activation holds the text it read from the control on entry             *)
(* (originalText) and where it stands.  timers holds the pending           *)
(* setTimeout(..., 2000) callbacks: the control, the originalText the      *)
(* callback restores, and whether originalText is in scope where the       *)
(* callback was written.                                                   *)
(***************************************************************************)
MaxCopies == 2

Copy(control, originalText, at) ==
  [control |-> control, originalText |-> originalText, at |-> at, write |-> "none"]

RevertTimer(control, originalText, bound) ==
  [control |-> control, originalText |-> originalText, bound |-> bound]

\* A click on a copy option: the function reads the control's current text
\* as originalText and shows 'Copying...'.  copyChartToClipboard then waits
\* for the image of the svg to load, the table functions for the clipboard
\* write.  The menu options are never disabled.
CopyClick ==
  /\ Len(copies) < MaxCopies
  /\ \E c \in CopyControls :
       /\ copies' = Append(copies,
             Copy(c, status[c], IF c = "chart" THEN "loading" ELSE "writing"))
       /\ status' = [status EXCEPT ![c] = "copying"]
  /\ UNCHANGED <<builderVars, contentArea, pageVars, reportVars, callVars, calls, normVars, downloads>>

\* img.onload of copyChartToClipboard: the canvas is drawn and converted,
\* then the clipboard write is started.
CopyImageLoaded ==
  \E i \in 1..Len(copies) :
    /\ copies[i].at = "loading"
    /\ copies' = [copies EXCEPT ![i].at = "writing"]
    /\ UNCHANGED <<builderVars, contentArea, pageVars, reportVars, callVars, calls, normVars,
                   status, downloads>>

\* img.onerror of copyChartToClipboard: 'Error' is shown, the revert is
\* scheduled and the promise is rejected.
CopyImageFailed ==
  \E i \in 1..Len(copies) :
    /\ copies[i].at = "loading"
    /\ copies' = [copies EXCEPT ![i].at = "rejected"]
    /\ status' = [status EXCEPT ![copies[i].control] = "error"]
    /\ console' = Append(console, "Failed to load SVG:")
    /\ timers' = Append(timers, RevertTimer(copies[i].control, copies[i].originalText, TRUE))
    /\ UNCHANGED <<builderVars, contentArea, d3, scriptLoads, uncaught, reportVars, callVars, calls,
                   normVars, downloads>>

\* The clipboard write succeeded: 'Copied!' is shown and the revert is
\* scheduled, inside the block that declares originalText.
CopyWriteSucceeded ==
  \E i \in 1..Len(copies) :
    /\ copies[i].at = "writing"
    /\ copies' = [copies EXCEPT ![i].at = "resolved", ![i].write = "succeeded"]
    /\ status' = [status EXCEPT ![copies[i].control] = "copied"]
    /\ timers' = Append(timers, RevertTimer(copies[i].control, copies[i].originalText, TRUE))
    /\ UNCHANGED <<builderVars, contentArea, d3, scriptLoads, console, uncaught, reportVars, callVars,
                   calls, normVars, downloads>>

\* A variant without the fallback.
DownloadsWithoutFallback(control, n) == n

\* link.click() on a link to the image, in the catch next to the clipboard
\* write of copyChartToClipboard; the table functions download nothing.
DownloadsAfterFailure(control, n) == IF control = "chart" THEN n + 1 ELSE n

\* The clipboard write failed.  copyChartToClipboard catches it next to the
\* write: the image is downloaded, 'Downloaded' is shown and the revert is
\* scheduled with originalText in scope.  The table functions catch it in
\* the catch block of the function, outside the try block whose const
\* originalText is: 'Error' is shown and the callback they schedule names
\* a variable that is not in scope.
CopyWriteFailed ==
  \E i \in 1..Len(copies) :
    LET c == copies[i].control
    IN /\ copies[i].at = "writing"
       /\ copies' = [copies EXCEPT ![i].at = "resolved", ![i].write = "failed"]
       /\ status' = [status EXCEPT ![c] = IF c = "chart" THEN "downloaded" ELSE "error"]
       /\ downloads' = DownloadsAfterFailure(c, downloads)
       /\ console' = Append(console,
             IF c = "chart" THEN "Failed to copy to clipboard:"
             ELSE IF c = "table" THEN "Failed to copy table:"
             ELSE "Failed to copy table as TSV:")
       /\ timers' = Append(timers, RevertTimer(c, copies[i].originalText, c = "chart"))
       /\ UNCHANGED <<builderVars, contentArea, d3, scriptLoads, uncaught, reportVars, callVars, calls,
                      normVars>>

\* The oldest revert callback runs: it puts originalText back on the
\* control, or throws a ReferenceError when originalText is not in scope.
CopyTimerFire ==
  /\ timers # <<>>
  /\ LET t == Head(timers)
     IN /\ status' = IF t.bound THEN [status EXCEPT ![t.control] = t.originalText]
                     ELSE status
        /\ uncaught' = IF t.bound THEN uncaught ELSE uncaught + 1
  /\ timers' = Tail(timers)
  /\ UNCHANGED <<builderVars, contentArea, d3, scriptLoads, console, reportVars, callVars, calls,
                 normVars, copies, downloads>>

InitCopy ==
  /\ isInitialized = TRUE
  /\ currentDocument = <<>>
  /\ hasDocument = TRUE
  /\ contentArea = TRUE
  /\ chartCounter = 0
  /\ sectionCounter = 0
  /\ d3 = "loaded"
  /\ scriptLoads = 0
  /\ console = <<>>
  /\ timers = <<>>
  /\ uncaught = 0
  /\ pc = Pc("idle")
  /\ report = <<>>
  /\ events = <<>>
  /\ callers = <<>>
  /\ microtasks = <<>>
  /\ calls = <<>>
  /\ datasets = <<>>
  /\ normalizedDatasets = <<>>
  /\ NoCopies

NextCopy ==
  \/ CopyClick
  \/ CopyImageLoaded
  \/ CopyImageFailed
  \/ CopyWriteSucceeded
  \/ CopyWriteFailed
  \/ CopyTimerFire

\* The browser settles every image load and clipboard write and runs every
\* timer callback; the user is free to click or not.
SpecCopy ==
  /\ InitCopy
  /\ [][NextCopy]_vars
  /\ WF_vars(CopyImageLoaded \/ CopyImageFailed)
  /\ WF_vars(CopyWriteSucceeded \/ CopyWriteFailed)
  /\ WF_vars(CopyTimerFire)

\* C20: whenever a copy control shows something else than its idle label,
\* it shows the idle label again later, whether the write succeeded or not.
C20_StatusReverts ==
  \A c \in CopyControls : (status[c] # "idle") ~> (status[c] = "idle")

\* The chart copies whose clipboard write failed.
FailedChartCopies ==
  {i \in 1..Len(copies) : copies[i].control = "chart" /\ copies[i].write = "failed"}

\* C21: a chart copy whose clipboard write failed has downloaded the image
\* and its promise is resolved, not rejected; there are exactly as many
\* downloads as failed chart writes, so none for a write that succeeded.
C21_DownloadOnlyOnFailure ==
  /\ \A i \in FailedChartCopies : copies[i].at = "resolved"
  /\ downloads = Cardinality(FailedChartCopies)

\* One chart copy was written to the clipboard and another failed and was
\* downloaded.
C21_Witness ==
  /\ Len(copies) = 2
  /\ copies[1].control = "chart" /\ copies[1].write = "succeeded"
  /\ copies[2].control = "chart" /\ copies[2].write = "failed"
  /\ copies[2].at = "resolved"
  /\ downloads = 1

\* The visual a copy control belongs to.
Visual(control) == IF control = "chart" THEN "chart" ELSE "table"

\* The copies on a visual that are in progress: started and not settled, or
\* settled with the revert still pending.
InProgress(v) ==
  Cardinality({i \in 1..Len(copies) :
                 Visual(copies[i].control) = v /\ copies[i].at \in {"loading", "writing"}})
    + Cardinality({k \in 1..Len(timers) : Visual(timers[k].control) = v})

\* C22: at most one copy operation is in progress on a visual at any time.
C22_CopiesNeverOverlap ==
  \A v \in {"chart", "table"} : InProgress(v) <= 1

\* The elements of the document built for the entry decl of the report.
ElementsFor(decl) == {p \in Places : NodeAt(p).decl = decl}

\* C23: every content block of the report has exactly one element in the
\* document: a key-finding for 'finding', a recommendation for
\* 'recommendation', with the priority prefix exactly when a priority is
\* given, and a plain text element for every other type.
C23_ContentDispatch ==
  hasDocument =>
    \A s \in 1..Len(report) :
      \A j \in 1..Len(report[s].content) :
        LET c == report[s].content[j]
            found == ElementsFor(<<s, "content", j>>)
        IN /\ Cardinality(found) = 1
           /\ \A p \in found :
                /\ NodeAt(p).tag =
                     (IF c.type = "finding" THEN "key-finding"
                      ELSE IF c.type = "recommendation" THEN "recommendation"
                      ELSE "text-content")
                /\ (NodeAt(p).n = 1) <=> (c.type = "recommendation" /\ c.priority)

\* A section with a recommendation without priority and a block of an
\* unknown type has been assembled.
C23_Witness ==
  /\ At("done")
  /\ Len(report) = 1
  /\ report[1].content = <<ContentEntry("recommendation", FALSE), ContentEntry("note", FALSE)>>
  /\ \E p \in ElementsFor(<<1, "content", 1>>) : NodeAt(p).tag = "recommendation"
  /\ \E p \in ElementsFor(<<1, "content", 2>>) : NodeAt(p).tag = "text-content"

\* The positions in events where a draw on chart-1 was scheduled by a call
\* that was given the containerId.
Scheduled == {i \in 1..Len(events) : events[i].ev = "schedule"}

\* The caller whose draw on chart-1 was scheduled last.
LastScheduled == events[CHOOSE i \in Scheduled : \A j \in Scheduled : j <= i].decl[1]

\* The children of the container chart-1.
SharedSurface == SurfaceKids(currentDocument, SelectChart(currentDocument, 1))

\* C24: nothing but the order in which the draws were scheduled decides
\* what calls on the same surface leave there: once every scheduled draw
\* has run, the surface holds the pie of the call whose draw was scheduled
\* last, whether or not that call was issued last.
C24_LastScheduledDrawWins ==
  (timers = <<>> /\ Scheduled # {}) =>
    SharedSurface = setupSVG(Marks(PieOf(LastScheduled)))

\* Two calls on chart-1 have completed and every draw has run: the surface
\* holds the pie of the call issued first.
C24_Witness ==
  /\ timers = <<>> /\ microtasks = <<>>
  /\ \E a, b \in 1..NumCallers :
       /\ callers[a].kind = "createPieChartOn" /\ callers[a].at = "done"
       /\ callers[b].kind = "createPieChartOn" /\ callers[b].at = "done"
       /\ a < b
       /\ SharedSurface = setupSVG(Marks(PieOf(a)))
       /\ SharedSurface # setupSVG(Marks(PieOf(b)))

\* The value the cell of column j (from 0) of a rendered row displays was
\* computed from: rows passed as pairs are rendered as they are.
PairCalls == {c \in 1..Len(calls) : calls[c].shape = "pairs" /\ ~calls[c].threw}

CellValue(i, j) == IF j = 0 THEN datasets[i].label ELSE datasets[i].value

\* C25: with a formatter every value cell (column >= 1) displays the
\* formatter's result for (value, row, column) and the label cell is not
\* passed to it; without one a number >= 1000 is written with thousands
\* separators, any other number that is not an integer with one decimal,
\* and every other cell as it is.
C25_CellFormatting ==
  \A c \in PairCalls :
    /\ Len(calls[c].rows) = Len(datasets)
    /\ \A i \in 1..Len(datasets) :
         /\ Len(calls[c].rows[i]) = 2
         /\ \A j \in 0..1 :
              LET v == CellValue(i, j)
                  shown == calls[c].rows[i][j + 1]
              IN IF calls[c].formatter /\ j >= 1
                 THEN shown = [fmt |-> "formatter", v |-> v, row |-> i - 1, col |-> j]
                 ELSE /\ shown.fmt # "formatter"
                      /\ calls[c].formatter \/ v.t # "number" \/ v.n < 100000 \/
                           (shown.fmt = "locale" /\ shown.v = v)
                      /\ calls[c].formatter \/ v.t # "number" \/ v.n >= 100000
                           \/ v.n % 100 = 0 \/
                           (shown.fmt = "fixed1" /\ shown.v.n % 10 = 0
                              /\ shown.v.n - v.n \in -5..5)
                      /\ calls[c].formatter \/ v.t \in {"number", "null"} \/
                           (shown.fmt = "plain" /\ shown.v = v)
                      /\ calls[c].formatter \/ v.t # "number" \/ v.n >= 100000
                           \/ v.n % 100 # 0 \/
                           (shown.fmt = "plain" /\ shown.v = v)

\* The row ('A', 1234.56) and the row ('A', -7.56) were rendered without a
\* formatter and then with one.
C25_Witness ==
  /\ Len(datasets) = 2
  /\ datasets[1] = [label |-> JsString("A"), value |-> JsNumber(123456)]
  /\ datasets[2] = [label |-> JsString("A"), value |-> JsNumber(-756)]
  /\ Len(calls) = 2
  /\ PairCalls = {1, 2}
  /\ ~calls[1].formatter /\ calls[2].formatter
  /\ calls[1].rows[1][2].fmt = "locale"
  /\ calls[1].rows[2][2] = [fmt |-> "fixed1", v |-> JsNumber(-760), row |-> -1, col |-> -1]
  /\ calls[2].rows[2][2].fmt = "formatter"

(***************************************************************************)
(* buildDemographicsReport followed by calls of window.addChart(type,      *)
(* config) made by the page once the report's promise has resolved.  calls *)
(* holds one record per addChart call: its type, the name of its entry     *)
(* and how its promise settled.  The entries of the report and the         *)
(* addChart calls together are at most MaxItems.                           *)
(***************************************************************************)
AddChartTypes == {"pie", "radar"}

AddChartDecl == <<0, "addChart", Len(calls) + 1>>

\* window.addChart(type, config), config naming no parent and no container:
\* a recognised type runs its create*Chart method on the initialised
\* builder (the container is appended to .report-content and the draw is
\* scheduled); any other type matches no case and the promise resolves
\* with undefined.
AddChart ==
  /\ At("done")
  /\ SumItems(report) + Len(calls) < MaxItems
  /\ \E type \in AddChartTypes :
       /\ calls' = Append(calls, [type |-> type, decl |-> AddChartDecl,
                                  settled |-> "resolved"])
       /\ IF DispatchesChart(type)
          THEN /\ currentDocument' = createChartContainer(currentDocument, chartCounter,
                                        PieABC.title, SelReportContent, AddChartDecl)
               /\ chartCounter' = ChartId(chartCounter)
               /\ timers' = Append(timers, Timer(ChartId(chartCounter), PieABC, AddChartDecl))
               /\ events' = Append(events, Event("append", AddChartDecl))
          ELSE UNCHANGED <<currentDocument, chartCounter, timers, events>>
  /\ UNCHANGED <<copyVars, contentArea, isInitialized, hasDocument, sectionCounter, d3, scriptLoads,
                 console, uncaught, pc, report, callVars, normVars>>

NextDispatch == Next \/ AddChart

SpecDispatch == Init /\ [][NextDispatch]_vars

\* The chart entries of the report and the addChart calls: [decl, type, null].
ChartEntries ==
  UNION {{[decl |-> <<s, "chart", k>>, type |-> report[s].charts[k].type,
           null |-> report[s].charts[k].null] : k \in 1..Len(report[s].charts)} :
           s \in 1..Len(report)}
    \cup {[decl |-> calls[c].decl, type |-> calls[c].type, null |-> FALSE] :
            c \in 1..Len(calls)}

Unrecognised(e) == ~e.null /\ e.type \notin ChartKinds

\* C26: a chart entry of an unrecognised type, in a report or passed to
\* addChart, is ignored: it has no container, no draw is scheduled or run
\* for it, the chart counter counts the recognised entries only, nothing is
\* raised, and the entries read after it are processed.
C26_UnknownTypeIgnored ==
  /\ \A e \in ChartEntries :
       Unrecognised(e) =>
         /\ ElementsFor(e.decl) = {}
         /\ \A t \in 1..Len(timers) : timers[t].decl # e.decl
         /\ \A i \in 1..Len(events) : events[i].decl # e.decl
  /\ chartCounter = Cardinality({e \in ChartEntries : ~e.null /\ e.type \in ChartKinds})
  /\ \A c \in 1..Len(calls) : calls[c].settled = "resolved"
  /\ (\A e \in ChartEntries : ~e.null) => (~At("rejected") \/ pc.cause # "chart")
  /\ uncaught > 0 => \E i \in 1..Len(events) : events[i].ev = "drawFailed"
  /\ \A e \in ChartEntries :
       (~e.null /\ e.type \in ChartKinds) => Cardinality(ElementsFor(e.decl)) = 1
  /\ \A s \in 1..Len(report) :
       \A j \in 1..Len(report[s].content) :
         Cardinality(ElementsFor(<<s, "content", j>>)) = 1

\* A section whose only chart entry has an unknown type was assembled and
\* addChart was then called with an unknown type: the section is empty and
\* no container has been numbered.
C26_Witness ==
  /\ At("done")
  /\ Len(report) = 1
  /\ report[1].charts = <<UnknownChart>>
  /\ Len(calls) = 1
  /\ calls[1].type = "radar"
  /\ calls[1].settled = "resolved"
  /\ Len(currentDocument) = 2
  /\ currentDocument[2].tag = "section"
  /\ currentDocument[2].kids = <<>>
  /\ chartCounter = 0
  /\ timers = <<>>

(***************************************************************************)
(* Two calls of buildDemographicsReport on the shared builder, the charting *)
(* library being on the page.  Activation a is the a-th call; report[a] is  *)
(* its description: one section, titled or not, with charts pie charts and  *)
(* content findings.  An activation: [kind, at, id, made], at being idle,   *)
(* unwinding and ready as for the other calls, chart (createPieChart waits  *)
(* behind its await), next (the await of createPieChart has a queued        *)
(* continuation) or done; id is section.id of its section and made counts   *)
(* the chart containers it has created.  Every element carries the          *)
(* activation it was built by in decl[1].                                   *)
(***************************************************************************)
Activations == {1, 2}

Activation(at, id, made) ==
  [kind |-> "buildDemographicsReport", at |-> at, id |-> id, made |-> made]

ReportInputs ==
  {[titled |-> t, charts |-> c, content |-> n] :
     t \in BOOLEAN, c \in 0..MaxItems, n \in 0..MaxItems}

\* buildDemographicsReport(reportData) up to its first await.
ReportIssue(a) ==
  /\ callers[a].at = "idle"
  /\ \A b \in Activations : b < a => callers[b].at # "idle"
  /\ At("idle")
  /\ \E r \in ReportInputs :
       /\ r.charts + r.content <= MaxItems
       /\ report' = Append(report, r)
  /\ LET at == AfterIssue("buildDemographicsReport", isInitialized, d3)
     IN /\ callers' = [callers EXCEPT ![a].at = at]
        /\ microtasks' = Append(microtasks, a)
  /\ isInitialized' = InitializedAfterCall(isInitialized, d3)
  /\ console' = LogAfterCall(console, isInitialized, d3)
  /\ events' = Append(events, Event("call", <<a, "report", 0>>))
  /\ UNCHANGED <<copyVars, contentArea, currentDocument, hasDocument, chartCounter, sectionCounter, d3,
                 scriptLoads, timers, uncaught, pc, calls, normVars>>

\* sectionData.content.forEach: the findings k..n of activation a.
RECURSIVE AddFindings(_, _, _, _, _)
AddFindings(doc, sel, a, k, n) ==
  IF k > n THEN doc
  ELSE AddFindings(addKeyFinding(doc, sel, <<a, "content", k>>), sel, a, k + 1, n)

FindingEvents(a, n) == [k \in 1..n |-> Event("append", <<a, "content", k>>)]

\* The loop over the charts of the section, entered with the document doc
\* and the events evs: the next createPieChart is called and awaited, or,
\* the charts being done, the content is added and the function returns.
ReportLoop(a, id, doc, evs) ==
  IF callers[a].made < report[a].charts
  THEN [doc |-> doc, evs |-> evs, at |-> "chart"]
  ELSE [doc |-> AddFindings(doc, SelSectionById(id), a, 1, report[a].content),
        evs |-> evs \o FindingEvents(a, report[a].content)
                    \o <<Event("return", <<a, "report", 0>>)>>,
        at |-> "done"]

\* The continuation at the head of the microtask queue.
ReportResume ==
  /\ microtasks # <<>>
  /\ LET a == Head(microtasks)
         me == callers[a]
     IN /\ IF me.at = "unwinding"
           THEN /\ callers' = [callers EXCEPT ![a].at = "ready"]
                /\ UNCHANGED <<currentDocument, hasDocument, contentArea, chartCounter,
                               sectionCounter, timers, events>>
           ELSE IF me.at = "ready"
           THEN LET id == SectionId(sectionCounter, report[a].titled)
                    doc == createSection(createDocument, sectionCounter, report[a].titled,
                                         <<a, "section", 1>>)
                    out == ReportLoop(a, id, doc,
                                      events \o <<Event("createDocument", <<a, "report", 0>>),
                                                  Event("append", <<a, "section", 1>>)>>)
                IN /\ currentDocument' = out.doc
                   /\ hasDocument' = TRUE
                   /\ contentArea' = TRUE
                   /\ sectionCounter' = SectionCounterAfter(sectionCounter, report[a].titled)
                   /\ events' = out.evs
                   /\ callers' = [callers EXCEPT ![a].at = out.at, ![a].id = id]
                   /\ UNCHANGED <<chartCounter, timers>>
           ELSE IF me.at = "chart"
           THEN LET decl == <<a, "chart", me.made + 1>>
                IN /\ currentDocument' = createChartContainer(currentDocument, chartCounter,
                                             PieABC.title, SelSectionById(me.id), decl)
                   /\ chartCounter' = ChartId(chartCounter)
                   /\ timers' = Append(timers, Timer(ChartId(chartCounter), PieABC, decl))
                   /\ events' = Append(events, Event("append", decl))
                   /\ callers' = [callers EXCEPT ![a].at = "next", ![a].made = me.made + 1]
                   /\ UNCHANGED <<hasDocument, contentArea, sectionCounter>>
           ELSE LET out == ReportLoop(a, me.id, currentDocument, events)
                IN /\ currentDocument' = out.doc
                   /\ events' = out.evs
                   /\ callers' = [callers EXCEPT ![a].at = out.at]
                   /\ UNCHANGED <<hasDocument, contentArea, chartCounter, sectionCounter,
                                  timers>>
        /\ microtasks' = IF callers'[a].at = "done" THEN Tail(microtasks)
                         ELSE Append(Tail(microtasks), a)
        /\ pc' = IF callers'[a].at = "done" /\ Tail(microtasks) = <<>> THEN Pc("idle")
                 ELSE Pc("draining")
  /\ UNCHANGED <<copyVars, isInitialized, d3, scriptLoads, console, uncaught, report, calls,
                 normVars>>

InitOverlap ==
  /\ isInitialized \in BOOLEAN
  /\ currentDocument = <<>>
  /\ hasDocument = FALSE
  /\ contentArea = FALSE
  /\ chartCounter = 0
  /\ sectionCounter = 0
  /\ d3 = "loaded"
  /\ scriptLoads = 0
  /\ console = <<>>
  /\ timers = <<>>
  /\ uncaught = 0
  /\ pc = Pc("idle")
  /\ report = <<>>
  /\ events = <<>>
  /\ callers = [a \in Activations |-> Activation("idle", -1, 0)]
  /\ microtasks = <<>>
  /\ calls = <<>>
  /\ datasets = <<>>
  /\ normalizedDatasets = <<>>
  /\ NoCopies

NextOverlap ==
  \/ \E a \in Activations : ReportIssue(a)
  \/ ReportResume
  \/ CallTimerFire

SpecOverlap == InitOverlap /\ [][NextOverlap]_vars

\* The second call was made before the first one's promise settled.
Overlapping ==
  /\ Len(events) >= 2
  /\ events[1].ev = "call"
  /\ events[2].ev = "call"

\* The activation that created the current document.
Owner ==
  LET made == {i \in 1..Len(events) : events[i].ev = "createDocument"}
  IN IF made = {} THEN 0
     ELSE events[CHOOSE i \in made : \A j \in made : j <= i].decl[1]

BuiltElements == {p \in Places : NodeAt(p).decl[2] \in {"section", "chart", "content"}}

\* C27: when two calls of buildDemographicsReport overlap, every element
\* of the current document was built by the activation that created the
\* document, and once both promises have resolved the document is the
\* later call's and holds its section, its charts and its findings.
C27_ReportsIsolated ==
  Overlapping =>
    /\ \A p \in BuiltElements : NodeAt(p).decl[1] = Owner
    /\ (\A a \in Activations : callers[a].at = "done") =>
         /\ Owner = 2
         /\ Cardinality(BuiltElements) = 1 + report[2].charts + report[2].content

\* C28: after reset() on a builder that has a current document both
\* counters are 0, and the createSection or createChartContainer call that
\* follows succeeds and appends its element to the content area.
C28_UsableAfterReset ==
  \A i \in 1..Len(events) :
    events[i].ev = "reset" =>
      /\ i = Len(events) => (chartCounter = 0 /\ sectionCounter = 0)
      /\ i < Len(events) /\ events[i + 1].ev # "reset" =>
           /\ events[i + 1].ev = "append"
           /\ i + 1 = Len(events) => ElementsFor(events[i + 1].decl) # {}

(***************************************************************************)
(* createPercentageBarChart and createMultiColorBarChart: the tooltip of a *)
(* bar.  datasets is the input [type, labels, data], the labels being the  *)
(* distinct category names "L1", "L2", ..., written as their numbers;      *)
(* calls holds one record per mouseover: the position of the bar hovered   *)
(* and the label the tooltip shows (0: undefined).                         *)
(***************************************************************************)
MaxBars == 2

BarValues == {10, 20, 30}

BarInputs ==
  {[type |-> t, labels |-> [i \in 1..Len(d) |-> i], data |-> d] :
     t \in {"percentage", "multiColor"},
     d \in UNION {[1..n -> BarValues] : n \in 1..MaxBars}}

\* data.indexOf(d): the first position holding a value strictly equal to d.
IndexOf(data, d) ==
  LET hits == {k \in 1..Len(data) : data[k] = d}
  IN IF hits = {} THEN 0 ELSE CHOOSE k \in hits : \A h \in hits : k <= h

\* labelText of the mouseover handler of the bar bound to data[i]:
\* labels[data.indexOf(d)].
TooltipLabel(labels, data, i) ==
  LET k == IndexOf(data, data[i])
  IN IF k \in 1..Len(labels) THEN labels[k] ELSE 0

\* The pointer enters the bar at position i of the rendered chart.
BarMouseOver ==
  /\ Len(calls) < MaxRenders
  /\ \E i \in 1..Len(datasets.data) :
       calls' = Append(calls, [bar |-> i,
                               labelText |-> TooltipLabel(datasets.labels, datasets.data, i)])
  /\ UNCHANGED <<copyVars, contentArea, builderVars, pageVars, reportVars, callVars, normVars>>

InitTooltip ==
  /\ isInitialized = TRUE
  /\ currentDocument = <<>>
  /\ hasDocument = TRUE
  /\ contentArea = TRUE
  /\ chartCounter = 0
  /\ sectionCounter = 0
  /\ d3 = "loaded"
  /\ scriptLoads = 0
  /\ console = <<>>
  /\ timers = <<>>
  /\ uncaught = 0
  /\ pc = Pc("idle")
  /\ report = <<>>
  /\ events = <<>>
  /\ callers = <<>>
  /\ microtasks = <<>>
  /\ calls = <<>>
  /\ datasets \in BarInputs
  /\ normalizedDatasets = <<>>
  /\ NoCopies

NextTooltip == BarMouseOver

SpecTooltip == InitTooltip /\ [][NextTooltip]_vars

\* C29: in the percentage and multi-color bar charts, hovering the bar at
\* position i shows labels[i] in the tooltip, repeated values included.
C29_TooltipShowsOwnLabel ==
  \A c \in 1..Len(calls) : calls[c].labelText = datasets.labels[calls[c].bar]

\* The chart entries of the report that were given a title and whose
\* deferred draw has completed.
DrawnTitledCharts ==
  {e \in 1..Len(events) :
     /\ events[e].ev = "draw"
     /\ events[e].decl[2] = "chart"
     /\ report[events[e].decl[1]].charts[events[e].decl[3]].title}

\* C30: the container a create*Chart method made for a chart with a title
\* still holds its title element once the deferred draw has completed.
C30_TitleSurvivesDraw ==
  \A e \in DrawnTitledCharts :
    \A p \in ElementsFor(events[e].decl) :
      \E k \in 1..Len(NodeAt(p).kids) : NodeAt(p).kids[k].tag = "h3"

====
